---- MODULE Spec2Model ----
(***************************************************************************)
(* Model of the tldw-agent ACP broker: the JSON-RPC connection (Conn), and *)
(* the session router (Runner) that sits between an upstream client and    *)
(* per-session downstream agent processes.                                 *)
(*                                                                         *)
(* ConnSpec : one Conn with concurrent callers, a peer and its read loop.  *)
(* RunSpec  : the read loop of one Conn with or without a request handler  *)
(*            and a notification handler, a caller and a peer.             *)
(* WireSpec : concurrent senders of one Conn writing framed lines, byte by *)
(*            byte, to the Conn's writer, and a reader of those bytes.     *)
(* FrameSpec: one payload written with WriteLineMessage and read back with *)
(*            ReadLineMessage.                                             *)
(* ReadSpec : successive calls of ReadLineMessage on an input stream.      *)
(* BufSpec  : one cappedBuffer, the two streams written to it and a reader *)
(*            of snapshots.                                                *)
(* TermSpec : a TerminalManager with the children of its terminals, their  *)
(*            wait goroutines and the thread that calls its methods.       *)
(* TermFairSpec: TermSpec with the goroutines scheduled and a kill sent    *)
(*            for every terminal.                                          *)
(* CreateSpec: TerminalManager.Create on a request and a configuration.    *)
(* FsSpec   : Session.ResolvePath and the fs/read_text_file and            *)
(*            fs/write_text_file handlers on one call and a file tree.     *)
(* Spec     : the Runner with its upstream Conn, the spawned downstream    *)
(*            Conns, their read loops, the session watchers, the agents    *)
(*            and the upstream client.                                     *)
(* FairSpec : Spec with weak fairness on every thread of the broker and on *)
(*            the peers' replies.                                          *)
(* DestroySpec: Spec with terminal/create requests of the first session's *)
(*            agent and the commands they start.                           *)
(***************************************************************************)
EXTENDS Integers, Sequences, FiniteSets, TLC

(***************************************************************************)
(* Bounds of the model.                                                    *)
(***************************************************************************)
\* ConnSpec: number of concurrent callers of Call/CallRaw
MaxCallers == 2
\* ConnSpec: number of lines the peer writes to the Conn
MaxPeerMsgs == 3

(***************************************************************************)
(* JSON-RPC envelope (RPCMessage).  Absent fields are the empty string.    *)
(* id holds the raw JSON bytes of the id: "1" is the number 1, "\"1\"" the *)
(* string "1", "null" the literal null.  json = FALSE is a line that does  *)
(* not unmarshal.                                                          *)
(***************************************************************************)
JSONRPCVersion == "2.0"
ErrInvalidReq == -32600
ErrMethodNotFound == -32601
ErrInvalidParams == -32602
ErrInternal == -32603

RPCMessage(id, method, params, result, error) ==
    [json |-> TRUE, jsonrpc |-> JSONRPCVersion, id |-> id, method |-> method,
     params |-> params, result |-> result, error |-> error]

\* RPCError is kept as its code; 0 is "no error object"
NoError == 0

NewErrorResponse(id, code) == RPCMessage(id, "", "", "", code)

NewResultResponse(id, result) == RPCMessage(id, "", "", result, NoError)

BadLine == [json |-> FALSE, jsonrpc |-> "", id |-> "", method |-> "",
            params |-> "", result |-> "", error |-> NoError]

(***************************************************************************)
(* Conn: the state of one connection is [nextID, pending, chans].          *)
(* pending maps the string form of an outstanding id to the rendezvous     *)
(* channel made for that call; a channel is named by the number minted for *)
(* its call and chans[n] is its buffer (capacity 1).                       *)
(***************************************************************************)
NewConn == [nextID |-> 0, pending |-> <<>>, chans |-> <<>>]

\* fmt.Sprintf("%d", id)
IdRaw(n) == ToString(n)

\* a bug: the counter is read and written back without the atomic add, so
\* that a concurrent call mints the same number
Register_LostUpdate(c) ==
    LET id == IF c.nextID = 0 THEN 1 ELSE c.nextID
    IN [nextID |-> id,
        pending |-> [k \in DOMAIN c.pending \cup {IdRaw(id)} |->
                        IF k = IdRaw(id) THEN id ELSE c.pending[k]],
        chans |-> [n \in DOMAIN c.chans \cup {id} |->
                        IF n = id THEN <<>> ELSE c.chans[n]]]

\* atomic.AddInt64(&c.nextID, 1), make(chan, 1), c.pending[key] = respCh
Register(c) ==
    LET id == c.nextID + 1
    IN [nextID |-> id,
        pending |-> [k \in DOMAIN c.pending \cup {IdRaw(id)} |->
                        IF k = IdRaw(id) THEN id ELSE c.pending[k]],
        chans |-> [n \in DOMAIN c.chans \cup {id} |->
                        IF n = id THEN <<>> ELSE c.chans[n]]]

\* a bug: the entry stays in the pending map
Forget_KeepsEntry(c, key) == c

\* delete(c.pending, key)
Forget(c, key) ==
    [c EXCEPT !.pending = [k \in DOMAIN c.pending \ {key} |-> c.pending[k]]]

\* a bug: the message is sent and the entry stays in the pending map
deliverResponse_KeepsPending(c, msg) ==
    IF msg.id \in DOMAIN c.pending
    THEN [c EXCEPT !.chans[c.pending[msg.id]] = Append(@, msg)]
    ELSE c

\* a bug: the response is handed to some pending call whatever its id
deliverResponse_AnyPending(c, msg) ==
    IF DOMAIN c.pending # {}
    THEN LET key == CHOOSE k \in DOMAIN c.pending : TRUE
             ch == c.pending[key]
         IN [Forget(c, key) EXCEPT !.chans[ch] = Append(@, msg)]
    ELSE c

\* Conn.deliverResponse
deliverResponse(c, msg) ==
    LET key == msg.id
    IN IF key \in DOMAIN c.pending
       THEN LET ch == c.pending[key]
            IN [Forget(c, key) EXCEPT !.chans[ch] = Append(@, msg)]
       ELSE c

\* a bug: a line that does not unmarshal is skipped
Classify_SkipsBadLine(msg) ==
    IF ~msg.json THEN "ignored"
    ELSE IF msg.method # ""
         THEN IF msg.id = "" \/ msg.id = "null" THEN "notification" ELSE "request"
         ELSE IF msg.id # "" THEN "response" ELSE "ignored"

\* the classification of an inbound envelope in Conn.Run
Classify(msg) ==
    IF ~msg.json THEN "unmarshal error"
    ELSE IF msg.method # ""
         THEN IF msg.id = "" \/ msg.id = "null" THEN "notification" ELSE "request"
         ELSE IF msg.id # "" THEN "response" ELSE "ignored"

(***************************************************************************)
(* ConnSpec: one Conn, MaxCallers threads in Call/CallRaw, a peer writing  *)
(* lines to the Conn's reader, and the read loop Run.                      *)
(***************************************************************************)
VARIABLES
    conn,       \* the Conn
    calls,      \* per caller: pc, the id minted, the response returned
    inbox,      \* lines written by the peer and not yet read by Run
    outbox,     \* lines the Conn wrote, in order
    peerSent,   \* number of lines the peer has written
    runPc,      \* "reading" | "eof" | "error": the state of Run
    wOpen,      \* the writer accepts writes
    rEOF,       \* the peer closed the reader's stream
    handler,    \* c.handler: "none" (nil) | "set"
    notification, \* c.notification: "none" (nil) | "set"
    invoked     \* the invocations of the two handlers, in order

handlerVars == <<handler, notification, invoked>>

\* the writer of the Conn at the level of bytes
VARIABLES
    senders,    \* per thread in Conn.send: pc, the marshalled data, bytes written,
                \* calls of w.Write made, error returned
    writeMu,    \* c.writeMu: 0 when free, else the thread that holds it
    wire,       \* the bytes written to c.writer, in order
    wireClosed, \* the writer was closed: a reader of the bytes sees EOF after them
    rdPos,      \* number of bytes the reader has consumed
    readBack    \* what the calls of ReadLineMessage returned, in order

wireVars == <<senders, writeMu, wire, wireClosed, rdPos, readBack>>

connVars == <<conn, calls, inbox, outbox, peerSent, runPc, wOpen, rEOF, handlerVars,
              wireVars>>

Callers == 1..MaxCallers

\* ids a peer may put on a response line: minted ones, the string "1", and
\* one this Conn never issues
PeerIds == {IdRaw(n) : n \in 1..MaxCallers} \cup {"\"1\"", "99"}

PeerLines ==
    {RPCMessage(i, "", "", "r", NoError) : i \in PeerIds}
    \cup {RPCMessage(i, "ping", "p", "", NoError) : i \in {"", "7"}}
    \cup {BadLine}

NoMsg == RPCMessage("", "", "", "", NoError)

\* what a RequestHandler returns: (resp, err), a nil resp being NoMsg
NoOutcome == [resp |-> NoMsg, err |-> FALSE]

HandlerOutcomes(h, msg) ==
    IF h = "none"
    THEN {NoOutcome}
    ELSE {[resp |-> NewResultResponse(msg.id, "handled"), err |-> FALSE],
          [resp |-> NoMsg, err |-> TRUE],
          [resp |-> NewResultResponse(msg.id, "handled"), err |-> TRUE],
          NoOutcome}

\* Conn.handleRequest
handleRequest(h, msg, out) ==
    IF h = "none"
    THEN [resp |-> NewErrorResponse(msg.id, ErrMethodNotFound), err |-> FALSE]
    ELSE out

\* a bug: the handler's error is dropped and its response sent as it is
runResponse_IgnoresError(msg, r) == r.resp

\* Conn.Run, lines 74-77: the response Run sends for a request, NoMsg for none
runResponse(msg, r) ==
    IF r.err THEN NewErrorResponse(msg.id, ErrInternal) ELSE r.resp

(***************************************************************************)
(* State of the Runner (Spec).  A Session is named by the number of the    *)
(* child process spawned for it.                                           *)
(***************************************************************************)
VARIABLES
    agentCommand, \* cfg.Agent.Command
    cachedCaps,   \* Runner.cachedCaps: [set |-> FALSE] is nil
    sessions,     \* Runner.sessions: session id -> Session (its child)
    upstream,     \* Runner.upstream, a Conn
    downstream,   \* Session.downstream, a Conn per child
    proc,         \* Session.process: "none" | "running" | "exited" | "reaped"
    spawned,      \* number of children spawned so far
    upIn,         \* lines the upstream client wrote, not yet read
    upOut,        \* lines written to the upstream client, in order
    clientSent,   \* requests and notifications the client sent, and its closing stdin
    answered,     \* ids of broker requests the client has answered
    wrote,        \* per child: the lines the agent has written, in order
    dsOut,        \* per child: lines written to the agent, not yet read by it
    uPc,          \* the upstream read thread: Conn.Run and the handler it is in
    dPc,          \* per child: the downstream read thread
    wPc,          \* per child: the watcher goroutine
    agentEvents,  \* notifications and requests the agents sent on their own, and exits
    newOutcome    \* per child: how the session/new that spawned it ended

runnerVars == <<agentCommand, cachedCaps, sessions, upstream, downstream, proc, spawned, upIn,
                upOut, clientSent, answered, wrote, dsOut, uPc, dPc,
                wPc, agentEvents, newOutcome>>

\* the TerminalManager of a Session, its processes and their output buffers
VARIABLES
    tmCfg,      \* Execution.Enabled, Execution.MaxOutputBytes and the session root
    request,    \* CreateSpec: the terminal/create request under study
    terminals,  \* m.terminals: the ids registered
    procs,      \* every terminalProcess made, by the number minted for its id
    tpc,        \* the thread calling the manager: the call it is in
    ret,        \* what the last call of the manager returned
    cb,         \* BufSpec: a cappedBuffer
    cbWritten,  \* BufSpec: all bytes handed to cb.Write, in order
    cbSnap      \* BufSpec: what the last Snapshot returned

\* one call of a file operation of a session: the call, what it returned and
\* what it made in the file system
VARIABLES fsReq, fsRet, fsNew

termVars == <<tmCfg, request, terminals, procs, tpc, ret, cb, cbWritten, cbSnap,
              fsReq, fsRet, fsNew>>

vars == <<connVars, runnerVars, termVars>>

(***************************************************************************)
(* Line framing.  A payload is a sequence of bytes; the bytes the model    *)
(* tells apart are LF, CR, space, tab and two that are not white space.    *)
(* Chunk stands for a run of MaxMessageSize bytes "a", so that payloads at *)
(* and above the size cap are among those of the model.                    *)
(***************************************************************************)
\* WireSpec: number of threads in Conn.send
MaxSenders == 2
\* FrameSpec: length of the payloads written
MaxLen == 3
\* ReadSpec: length of the input stream read
MaxStream == 4

Senders == 1..MaxSenders

LF == "\n"
CR == "\r"
SP == " "
TAB == "\t"

Chunk == "a*"

Bytes == {"a", "b", Chunk, SP, TAB, CR, LF}

\* unicode.IsSpace on the bytes of the model
IsSpace(b) == b \in {SP, TAB, CR, LF}

MaxMessageSize == 1024 * 1024

\* len(data)
RECURSIVE Size(_)
Size(data) ==
    IF data = <<>>
    THEN 0
    ELSE (IF Head(data) = Chunk THEN MaxMessageSize ELSE 1) + Size(Tail(data))

\* bytes.TrimSpace
TrimSpace(line) ==
    LET keep == {i \in 1..Len(line) : ~IsSpace(line[i])}
    IN IF keep = {}
       THEN <<>>
       ELSE SubSeq(line, CHOOSE i \in keep : \A j \in keep : i <= j,
                         CHOOSE i \in keep : \A j \in keep : i >= j)

\* bytes.Contains(data, []byte{'\n'})
ContainsLF(data) == \E i \in 1..Len(data) : data[i] = LF

\* r.ReadBytes('\n') on a stream r that ends with EOF: the bytes up to and
\* including the first LF, or all of them and io.EOF
ReadBytes(r) ==
    IF ContainsLF(r)
    THEN [line |-> SubSeq(r, 1, CHOOSE i \in 1..Len(r) :
                                   r[i] = LF /\ \A j \in 1..(i - 1) : r[j] # LF),
          eof |-> FALSE]
    ELSE [line |-> r, eof |-> TRUE]

\* ReadLineMessage on the stream r: the payload returned, the error ("" for
\* nil) and the number of bytes consumed
RECURSIVE ReadLineMessage(_)
ReadLineMessage(r) ==
    LET rb == ReadBytes(r)
        n == Len(rb.line)
        noLF == IF n > 0 /\ rb.line[n] = LF THEN SubSeq(rb.line, 1, n - 1) ELSE rb.line
        line == IF Len(noLF) > 0 /\ noLF[Len(noLF)] = CR
                THEN SubSeq(noLF, 1, Len(noLF) - 1)
                ELSE noLF
        trimmed == TrimSpace(line)
    IN IF n = 0
       THEN [payload |-> <<>>, err |-> "EOF", n |-> 0]
       ELSE IF Len(trimmed) = 0
            THEN IF rb.eof
                 THEN [payload |-> <<>>, err |-> "EOF", n |-> n]
                 ELSE [ReadLineMessage(SubSeq(r, n + 1, Len(r))) EXCEPT !.n = @ + n]
            ELSE IF ContainsLF(trimmed)
                 THEN [payload |-> <<>>, err |-> "embedded newline", n |-> n]
                 ELSE IF Size(trimmed) > MaxMessageSize
                      THEN [payload |-> <<>>, err |-> "too long", n |-> n]
                      ELSE [payload |-> trimmed, err |-> "", n |-> n]

\* a bug: the size check lets a payload one byte over the cap through
WriteLineError_OffByOne(data) ==
    IF Len(data) = 0 THEN "empty"
    ELSE IF ContainsLF(data) THEN "embedded newline"
    ELSE IF Size(data) > MaxMessageSize + 1 THEN "too long"
    ELSE ""

\* WriteLineMessage: the error it returns before writing, "" for none
WriteLineError(data) ==
    IF Len(data) = 0 THEN "empty"
    ELSE IF ContainsLF(data) THEN "embedded newline"
    ELSE IF Size(data) > MaxMessageSize THEN "too long"
    ELSE ""

\* WriteLineMessage: the bytes handed to w.Write
Frame(data) == Append(data, LF)

(***************************************************************************)
(* cappedBuffer: the output of a terminal, kept to its last limit bytes.   *)
(***************************************************************************)
\* BufSpec: the limit of the buffer
MaxLimit == 2
\* BufSpec: bytes written to the buffer in all
MaxBytes == 4
\* BufSpec: bytes of one Write
MaxChunk == 2

\* a bug: the bytes over the limit are cut at the end
cappedWrite_KeepsHead(b, p) ==
    LET all == b.buf \o p
    IN IF b.limit > 0 /\ Len(all) > b.limit
       THEN [b EXCEPT !.buf = SubSeq(all, 1, b.limit), !.truncated = TRUE]
       ELSE [b EXCEPT !.buf = all]

\* cappedBuffer.Write
cappedWrite(b, p) ==
    LET all == b.buf \o p
    IN IF b.limit > 0 /\ Len(all) > b.limit
       THEN [b EXCEPT !.buf = SubSeq(all, Len(all) - b.limit + 1, Len(all)),
                      !.truncated = TRUE]
       ELSE [b EXCEPT !.buf = all]

\* cappedBuffer.Snapshot
Snapshot(b) == [data |-> b.buf, truncated |-> b.truncated]

(***************************************************************************)
(* TerminalManager.Create: the allowlist, the argument screen, the working *)
(* directory and the output limit.  A token is a sequence of symbols, each *)
(* a character or a run of plain characters ("npm"); a template is kept as *)
(* the tokens strings.Fields makes of it.                                  *)
(***************************************************************************)
\* CreateSpec: number of args of a terminal/create request
MaxArgsLen == 2
\* terminals created by one manager
MaxTerms == 1

\* the symbol of the character U+0060
Backtick == "BACKTICK"

MetaChars == {";", "&", "|", Backtick, "$", "(", ")", "{", "}", "<", ">",
              "'", "\"", "\\", "\n", "\r"}

\* a bug: the line breaks are missing from the list
containsShellMeta_MissesLineBreaks(tok) ==
    \E i \in 1..Len(tok) : tok[i] \in MetaChars \ {"\n", "\r"}

containsShellMeta(tok) == \E i \in 1..Len(tok) : tok[i] \in MetaChars

\* m.commands: a default entry that takes no args, and custom entries with a
\* blank template, with max_args 1, with a negative max_args and with
\* max_args 0
Commands ==
    << [id |-> "npm_install", template |-> << <<"npm">>, <<"install">> >>,
        allowArgs |-> FALSE, maxArgs |-> 0],
       [id |-> "blank", template |-> <<>>, allowArgs |-> TRUE, maxArgs |-> 0],
       [id |-> "run_one", template |-> << <<"run">> >>, allowArgs |-> TRUE, maxArgs |-> 1],
       [id |-> "run_neg", template |-> << <<"run">> >>, allowArgs |-> TRUE, maxArgs |-> -1],
       [id |-> "npm_any", template |-> << <<"npm">> >>, allowArgs |-> TRUE, maxArgs |-> 0] >>

\* a bug: only the first token of the template is compared
tokensMatchPrefix_FirstOnly(prefix, full) ==
    IF Len(prefix) > Len(full)
    THEN FALSE
    ELSE prefix = <<>> \/ prefix[1] = full[1]

tokensMatchPrefix(prefix, full) ==
    IF Len(prefix) > Len(full)
    THEN FALSE
    ELSE \A i \in 1..Len(prefix) : prefix[i] = full[i]

\* the loop of matchAllowlist from entry i on
RECURSIVE matchFrom(_, _, _)
matchFrom(commands, requested, i) ==
    IF i > Len(commands)
    THEN [ok |-> FALSE, entry |-> 0, extra |-> <<>>]
    ELSE LET templateTokens == commands[i].template
             extra == SubSeq(requested, Len(templateTokens) + 1, Len(requested))
         IN IF \/ Len(templateTokens) = 0
               \/ Len(requested) < Len(templateTokens)
               \/ ~tokensMatchPrefix(templateTokens, requested)
               \/ /\ Len(extra) > 0
                  /\ \/ ~commands[i].allowArgs
                     \/ commands[i].maxArgs > 0 /\ Len(extra) > commands[i].maxArgs
            THEN matchFrom(commands, requested, i + 1)
            ELSE [ok |-> TRUE, entry |-> i, extra |-> extra]

matchAllowlist(commands, command, args) == matchFrom(commands, <<command>> \o args, 1)

\* the empty path ""; a path is absolute or not and has components
NoPath == [abs |-> FALSE, comps |-> <<>>]

\* the file system: the directories there are, by their components, and the
\* symbolic links with their targets
Dirs == {<<>>, <<"ws">>, <<"ws", "sub">>, <<"ws", "sub", "deep">>, <<"ws", ".env">>,
         <<"ws", "..cache">>, <<"ws", "out">>, <<"out">>}

\* /ws/link leaves the root, /ws/in stays in it
Links == [l \in {<<"ws", "link">>, <<"ws", "in">>} |->
            IF l = <<"ws", "link">> THEN <<"out">> ELSE <<"ws", "sub", "deep">>]

\* the files there are, each with its bytes
Files ==
    [f \in {<<"ws", "f.txt">>, <<"ws", "g.txt">>, <<"ws", "key.pem">>, <<"ws", "out", "secret">>,
             <<"out", "secret">>} |->
        IF f = <<"ws", "f.txt">> THEN <<"a", "\n", "b", "\n", "a", "\n">>
        ELSE IF f = <<"ws", "g.txt">> THEN <<"a", "\r", "\n", "\n", "b">>
        ELSE IF f = <<"out", "secret">> THEN <<"s", "\n">>
        ELSE <<"b", "\n">>]

\* filepath.EvalSymlinks from the resolved directory cur on; when it fails,
\* notExist tells whether the error is that of a missing file
RECURSIVE Walk(_, _)
Walk(cur, rest) ==
    IF rest = <<>>
    THEN [ok |-> TRUE, path |-> cur, notExist |-> FALSE]
    ELSE IF cur \in DOMAIN Files
         THEN [ok |-> FALSE, path |-> <<>>, notExist |-> FALSE]
    ELSE IF Head(rest) = ".."
         THEN Walk(IF cur = <<>> THEN cur ELSE SubSeq(cur, 1, Len(cur) - 1), Tail(rest))
         ELSE LET nxt == Append(cur, Head(rest))
              IN IF nxt \in DOMAIN Links
                 THEN Walk(Links[nxt], Tail(rest))
                 ELSE IF nxt \in Dirs \/ nxt \in DOMAIN Files
                      THEN Walk(nxt, Tail(rest))
                      ELSE [ok |-> FALSE, path |-> <<>>, notExist |-> TRUE]

EvalSymlinks(comps) == Walk(<<>>, comps)

\* filepath.Clean on the components of an absolute path
RECURSIVE CleanFrom(_, _)
CleanFrom(cur, rest) ==
    IF rest = <<>>
    THEN cur
    ELSE IF Head(rest) = ".."
         THEN CleanFrom(IF cur = <<>> THEN cur ELSE SubSeq(cur, 1, Len(cur) - 1), Tail(rest))
         ELSE CleanFrom(Append(cur, Head(rest)), Tail(rest))

Clean(comps) == CleanFrom(<<>>, comps)

\* the names of the model that match the patterns .env, *.pem and *.key
BlockedNames == {".env", "key.pem", "id.key"}

\* Config.IsPathBlocked: filepath.Match of each pattern with the base name
\* and with the whole path, of which **/node_modules/** and
\* **/.git/objects/** match the paths of three and four segments
IsPathBlocked(real) ==
    /\ real # <<>>
    /\ \/ real[Len(real)] \in BlockedNames
       \/ Len(real) = 2 /\ real[1] = "node_modules"
       \/ Len(real) = 3 /\ real[1] = ".git" /\ real[2] = "objects"

\* the absolute path both functions start from
absPathOf(root, path) == IF path.abs THEN path.comps ELSE Clean(root.comps \o path.comps)

\* Session.validatePathLocked: "" when the path is valid, else the error
validatePathLocked(root, path) ==
    LET absPath == absPathOf(root, path)
        whole == EvalSymlinks(absPath)
        parent == EvalSymlinks(IF absPath = <<>> THEN absPath
                               ELSE Clean(SubSeq(absPath, 1, Len(absPath) - 1)))
        realPath == IF whole.ok THEN whole.path
                    ELSE IF absPath = <<>> THEN parent.path
                    ELSE Clean(Append(parent.path, absPath[Len(absPath)]))
        realRoot == EvalSymlinks(root.comps)
        under == /\ Len(realPath) >= Len(realRoot.path)
                 /\ SubSeq(realPath, 1, Len(realRoot.path)) = realRoot.path
        rel == IF under
               THEN SubSeq(realPath, Len(realRoot.path) + 1, Len(realPath))
               ELSE <<"..">>
    IN IF root = NoPath THEN "no workspace set"
       ELSE IF ~whole.ok /\ (~whole.notExist \/ ~parent.ok) THEN "failed to resolve path"
       ELSE IF ~realRoot.ok THEN "failed to resolve workspace root"
       ELSE IF rel # <<>> /\ rel[1] \in {"..", "..cache"} THEN "path escapes workspace root"
       ELSE IF IsPathBlocked(realPath) THEN "path is blocked by policy"
       ELSE ""

\* Session.ResolvePath
ResolvePath(root, path) ==
    IF root = NoPath
    THEN [err |-> "no workspace set", path |-> NoPath]
    ELSE IF validatePathLocked(root, path) # ""
         THEN [err |-> validatePathLocked(root, path), path |-> NoPath]
         ELSE [err |-> "", path |-> [abs |-> TRUE, comps |-> Clean(absPathOf(root, path))]]

\* Create, lines 112-118: the limit of the output buffer
bufferLimit(maxOutputBytes, outputLimit) ==
    LET limit == IF outputLimit > 0 /\ outputLimit < maxOutputBytes
                 THEN outputLimit
                 ELSE maxOutputBytes
    IN IF limit <= 0 THEN 1024 * 1024 ELSE limit

\* a bug: send does not wait for the write mutex
Lockable_Always(mu) == TRUE

\* c.writeMu.Lock() returns when the mutex is free
Lockable(mu) == mu = 0

(***************************************************************************)
(* Bounds of the Runner model.                                             *)
(***************************************************************************)
\* children the spawn function can start
MaxChildren == 2
\* events the client and the agents start on their own: a request or a
\* notification written, the client closing the broker's stdin, an agent
\* exiting (responses are not counted)
MaxInputs == 3
\* client lines waiting in the broker's stdin
MaxUpQueue == 1

Children == 1..MaxChildren

\* session ids an agent may assign
SessionIds == {"sA", "sB"}

\* params/result documents.  A params document of session/prompt, session/cancel
\* and _tldw/session/close is written as its sessionId ("{}" has none), one of
\* session/new as its cwd, a session/new result as its sessionId; "[]" is JSON
\* that does not unmarshal into the struct.
NotAnObject == "[]"
EmptyObject == "{}"

\* json.Unmarshal(msg.Params, &sessionPromptParams{})
sessionPromptParams(params) ==
    [ok |-> params # NotAnObject /\ params # "",
     SessionID |-> IF params \in SessionIds THEN params ELSE ""]

\* json.Unmarshal(msg.Params, &sessionNewParams{})
sessionNewParams(params) ==
    [ok |-> params # NotAnObject /\ params # "",
     Cwd |-> IF params \in {NotAnObject, EmptyObject} THEN "" ELSE params]

\* filepath.IsAbs on the cwd values of the model
IsAbs(path) == path \in {"/ws", "/missing"}

\* workspace.Session.SetRoot succeeds: the path is an existing directory
SetRootOK(path) == path = "/ws"

\* json.Unmarshal(resp.Result, &sessionResult)
sessionResult(result) ==
    [ok |-> result # NotAnObject /\ result # "",
     SessionID |-> IF result \in SessionIds THEN result ELSE ""]

\* the line number n of agent c carries this text, so that it can be told apart
Tag(c, n) == ToString(<<c, n>>)

\* defaultAgentCapabilities; a capability object is written as a string
defaultAgentCapabilities ==
    [loadSession |-> "false", promptCapabilities |-> "prompt0",
     mcpCapabilities |-> "mcp0", sessionCapabilities |-> "session0"]

\* the results the agent of a session may give to initialize: one without
\* an agentCapabilities object, one reporting promptCapabilities and the
\* legacy mcp key
InitResults == {EmptyObject, "capsLegacy"}

\* the results a probe may get: those, and one reporting every key and
\* loadSession true
ProbeResults == InitResults \cup {"capsFull"}

\* payload["agentCapabilities"] of an initialize result
agentCapabilitiesOf(raw) ==
    IF raw = "capsFull"
    THEN [loadSession |-> "true", promptCapabilities |-> "prompt1",
          mcpCapabilities |-> "mcp1", sessionCapabilities |-> "session1"]
    ELSE [promptCapabilities |-> "prompt2", mcp |-> "mcp2"]

\* a nil capability map
NoCaps == [set |-> FALSE, caps |-> [k \in {} |-> ""]]

\* a bug: the legacy mcp key is not aliased
parseAgentCapabilities_NoLegacy(raw) ==
    IF raw \notin {"capsFull", "capsLegacy"}
    THEN NoCaps
    ELSE [set |-> TRUE, caps |-> agentCapabilitiesOf(raw)]

\* parseAgentCapabilities: nil unless the result holds an agentCapabilities
\* object; the legacy mcp key stands in for a missing mcpCapabilities
parseAgentCapabilities(raw) ==
    IF raw \notin {"capsFull", "capsLegacy"}
    THEN NoCaps
    ELSE LET caps == agentCapabilitiesOf(raw)
         IN [set |-> TRUE,
             caps |-> IF "mcpCapabilities" \notin DOMAIN caps /\ "mcp" \in DOMAIN caps
                      THEN [k \in DOMAIN caps \cup {"mcpCapabilities"} |->
                              IF k = "mcpCapabilities" THEN caps["mcp"] ELSE caps[k]]
                      ELSE caps]

\* Runner.updateCachedCapabilities: the cache afterwards
updateCachedCapabilities(cached, raw) ==
    IF parseAgentCapabilities(raw).set THEN parseAgentCapabilities(raw) ELSE cached

\* Runner.buildAgentCapabilities on the cache (after the refresh, if any)
buildAgentCapabilities(cached) ==
    IF ~cached.set
    THEN defaultAgentCapabilities
    ELSE [k \in DOMAIN defaultAgentCapabilities |->
            IF k = "loadSession" THEN "false"
            ELSE IF k \in {"promptCapabilities", "mcpCapabilities", "sessionCapabilities"}
                    /\ k \in DOMAIN cached.caps
                 THEN cached.caps[k]
                 ELSE defaultAgentCapabilities[k]]

\* the agentCapabilities of handleInitialize's result as they are marshalled
initializeResult(caps) ==
    "loadSession:" \o caps["loadSession"] \o ",promptCapabilities:" \o caps["promptCapabilities"]
    \o ",mcpCapabilities:" \o caps["mcpCapabilities"]
    \o ",sessionCapabilities:" \o caps["sessionCapabilities"]


NoStatus == [present |-> FALSE, exitCode |-> 0, signal |-> ""]

NoResult == [op |-> "none", id |-> 0, err |-> "", output |-> <<>>, truncated |-> FALSE,
             exitStatus |-> NoStatus]

NoRequest == [command |-> <<>>, args |-> <<>>, cwd |-> NoPath, outputLimit |-> 0]

\* NewTerminalManager: no terminal was created
ManagerIdle ==
    /\ terminals = {}
    /\ procs = <<>>
    /\ tpc = [pc |-> "idle", id |-> 0, wasDone |-> FALSE]
    /\ ret = NoResult

\* no cappedBuffer is under study
BufIdle ==
    /\ cb = [buf |-> <<>>, limit |-> 0, truncated |-> FALSE]
    /\ cbWritten = <<>>
    /\ cbSnap = [taken |-> FALSE, data |-> <<>>, truncated |-> FALSE]

NoCall == [op |-> "none", path |-> NoPath, line |-> 0, limit |-> 0, content |-> <<>>]

NoReturn == [op |-> "none", err |-> "", path |-> NoPath, content |-> <<>>]

\* no file operation is under study
FsIdle ==
    /\ fsReq = NoCall
    /\ fsRet = NoReturn
    /\ fsNew = [dirs |-> {}, files |-> {}]

TermIdle ==
    /\ tmCfg = [enabled |-> TRUE, maxOutputBytes |-> MaxMessageSize, root |-> NoPath]
    /\ request = NoRequest
    /\ ManagerIdle
    /\ BufIdle
    /\ FsIdle

\* no thread is in Conn.send and nothing was written
WireIdle ==
    /\ senders = [t \in Senders |-> [pc |-> "none", data |-> <<>>, pos |-> 0, writes |-> 0, err |-> ""]]
    /\ writeMu = 0
    /\ wire = <<>>
    /\ wireClosed = FALSE
    /\ rdPos = 0
    /\ readBack = <<>>

IdleThread == [pc |-> "read", msg |-> NoMsg, child |-> 0, key |-> 0, ids |-> {}]

RunnerIdle ==
    /\ agentCommand = ""
    /\ cachedCaps = NoCaps
    /\ sessions = <<>>
    /\ upstream = NewConn
    /\ downstream = [c \in Children |-> NewConn]
    /\ proc = [c \in Children |-> "none"]
    /\ spawned = 0
    /\ upIn = <<>>
    /\ upOut = <<>>
    /\ clientSent = 0
    /\ answered = {}
    /\ wrote = [c \in Children |-> <<>>]
    /\ dsOut = [c \in Children |-> <<>>]
    /\ agentEvents = 0
    /\ uPc = IdleThread
    /\ dPc = [c \in Children |-> [IdleThread EXCEPT !.pc = "none"]]
    /\ wPc = [c \in Children |-> [pc |-> "none", sessionID |-> ""]]
    /\ newOutcome = [c \in Children |-> "none"]

ConnInit ==
    /\ conn = NewConn
    /\ calls = [p \in Callers |-> [pc |-> "idle", id |-> 0, resp |-> NoMsg]]
    /\ inbox = <<>>
    /\ outbox = <<>>
    /\ peerSent = 0
    /\ runPc = "reading"
    /\ wOpen = TRUE
    /\ rEOF = FALSE
    /\ handler = "none"
    /\ notification = "none"
    /\ invoked = <<>>
    /\ WireIdle
    /\ RunnerIdle
    /\ TermIdle

\* CallRaw up to the pending registration (lines 107-121)
CallRegister(p) ==
    /\ calls[p].pc = "idle"
    /\ conn' = Register(conn)
    /\ calls' = [calls EXCEPT ![p] = [pc |-> "registered", id |-> Register(conn).nextID,
                                      resp |-> NoMsg]]
    /\ UNCHANGED <<inbox, outbox, peerSent, runPc, wOpen, rEOF>>
    /\ UNCHANGED <<runnerVars, wireVars, termVars>>
    /\ UNCHANGED handlerVars

\* CallRaw: SendMessage and its error path (lines 123-128)
CallSend(p) ==
    /\ calls[p].pc = "registered"
    /\ IF wOpen
       THEN /\ outbox' = Append(outbox, RPCMessage(IdRaw(calls[p].id), "call", "p", "", NoError))
            /\ calls' = [calls EXCEPT ![p].pc = "waiting"]
            /\ conn' = conn
       ELSE /\ conn' = Forget(conn, IdRaw(calls[p].id))
            /\ calls' = [calls EXCEPT ![p].pc = "send error"]
            /\ outbox' = outbox
    /\ UNCHANGED <<inbox, peerSent, runPc, wOpen, rEOF>>
    /\ UNCHANGED <<runnerVars, wireVars, termVars>>
    /\ UNCHANGED handlerVars

\* CallRaw: case <-ctx.Done() (lines 131-135)
CallCancel(p) ==
    /\ calls[p].pc = "waiting"
    /\ conn' = Forget(conn, IdRaw(calls[p].id))
    /\ calls' = [calls EXCEPT ![p].pc = "cancelled"]
    /\ UNCHANGED <<inbox, outbox, peerSent, runPc, wOpen, rEOF>>
    /\ UNCHANGED <<runnerVars, wireVars, termVars>>
    /\ UNCHANGED handlerVars

\* CallRaw: case resp := <-respCh (lines 136-137)
CallReturn(p) ==
    /\ calls[p].pc = "waiting"
    /\ conn.chans[calls[p].id] # <<>>
    /\ calls' = [calls EXCEPT ![p].pc = "returned", ![p].resp = Head(conn.chans[calls[p].id])]
    /\ conn' = [conn EXCEPT !.chans[calls[p].id] = Tail(@)]
    /\ UNCHANGED <<inbox, outbox, peerSent, runPc, wOpen, rEOF>>
    /\ UNCHANGED <<runnerVars, wireVars, termVars>>
    /\ UNCHANGED handlerVars

\* the peer writes one line, once Run has read the one before
PeerWrite(m) ==
    /\ ~rEOF
    /\ peerSent < MaxPeerMsgs
    /\ inbox = <<>>
    /\ inbox' = Append(inbox, m)
    /\ peerSent' = peerSent + 1
    /\ UNCHANGED <<conn, calls, outbox, runPc, wOpen, rEOF>>
    /\ UNCHANGED <<runnerVars, wireVars, termVars>>
    /\ UNCHANGED handlerVars

\* the peer closes its end
PeerClose ==
    /\ ~rEOF
    /\ rEOF' = TRUE
    /\ wOpen' = FALSE
    /\ UNCHANGED <<conn, calls, inbox, outbox, peerSent, runPc>>
    /\ UNCHANGED <<runnerVars, wireVars, termVars>>
    /\ UNCHANGED handlerVars

\* one iteration of Conn.Run (lines 52-89); the request handler, when one is
\* installed, returns any of HandlerOutcomes
RunStep ==
    /\ runPc = "reading"
    /\ inbox # <<>>
    /\ inbox' = Tail(inbox)
    /\ LET msg == Head(inbox)
           kind == Classify(msg)
       IN CASE kind = "unmarshal error" ->
                 /\ runPc' = "error"
                 /\ UNCHANGED <<conn, outbox, invoked>>
            [] kind = "notification" ->
                 /\ invoked' = IF notification = "set"
                               THEN Append(invoked, [h |-> "notification", msg |-> msg,
                                                     out |-> NoOutcome])
                               ELSE invoked
                 /\ UNCHANGED <<conn, outbox, runPc>>
            [] kind = "request" ->
                 \E out \in HandlerOutcomes(handler, msg) :
                    LET resp == runResponse(msg, handleRequest(handler, msg, out))
                    IN /\ invoked' = IF handler = "set"
                                     THEN Append(invoked, [h |-> "request", msg |-> msg,
                                                           out |-> out])
                                     ELSE invoked
                       /\ IF resp = NoMsg
                          THEN UNCHANGED <<conn, outbox, runPc>>
                          ELSE IF wOpen
                               THEN /\ outbox' = Append(outbox, resp)
                                    /\ UNCHANGED <<conn, runPc>>
                               ELSE /\ runPc' = "error"
                                    /\ UNCHANGED <<conn, outbox>>
            [] kind = "response" ->
                 /\ conn' = deliverResponse(conn, msg)
                 /\ UNCHANGED <<outbox, runPc, invoked>>
            [] OTHER -> UNCHANGED <<conn, outbox, runPc, invoked>>
    /\ UNCHANGED <<calls, peerSent, wOpen, rEOF, handler, notification>>
    /\ UNCHANGED <<runnerVars, wireVars, termVars>>

\* ReadLineMessage returns io.EOF: Run returns nil (lines 54-57)
RunEOF ==
    /\ runPc = "reading"
    /\ inbox = <<>>
    /\ rEOF
    /\ runPc' = "eof"
    /\ UNCHANGED <<conn, calls, inbox, outbox, peerSent, wOpen, rEOF>>
    /\ UNCHANGED <<runnerVars, wireVars, termVars>>
    /\ UNCHANGED handlerVars

ConnNext ==
    \/ \E p \in Callers : CallRegister(p)
    \/ \E p \in Callers : CallSend(p)
    \/ \E p \in Callers : CallCancel(p)
    \/ \E p \in Callers : CallReturn(p)
    \/ \E m \in PeerLines : PeerWrite(m)
    \/ PeerClose
    \/ RunStep
    \/ RunEOF

ConnSpec == ConnInit /\ [][ConnNext]_vars

(***************************************************************************)
(* RunSpec: the read loop of a Conn whose handlers are installed or not,   *)
(* one thread in Call/CallRaw, and a peer writing lines of every class.    *)
(***************************************************************************)
\* lines of the peer: responses with a minted and a foreign id, a request,
\* notifications without id and with the literal null, an envelope with
\* neither method nor id, and a line that does not unmarshal
RunLines ==
    {RPCMessage(i, "", "", "r", NoError) : i \in {IdRaw(1), "99", ""}}
    \cup {RPCMessage(i, "ping", "p", "", NoError) : i \in {"", "null", "7"}}
    \cup {BadLine}

RunInit ==
    /\ conn = NewConn
    /\ calls = [p \in Callers |-> [pc |-> "idle", id |-> 0, resp |-> NoMsg]]
    /\ inbox = <<>>
    /\ outbox = <<>>
    /\ peerSent = 0
    /\ runPc = "reading"
    /\ wOpen = TRUE
    /\ rEOF = FALSE
    /\ handler \in {"none", "set"}
    /\ notification \in {"none", "set"}
    /\ invoked = <<>>
    /\ WireIdle
    /\ RunnerIdle
    /\ TermIdle

RunNext ==
    \/ CallRegister(1)
    \/ CallSend(1)
    \/ CallCancel(1)
    \/ CallReturn(1)
    \/ \E m \in RunLines : PeerWrite(m)
    \/ PeerClose
    \/ RunStep
    \/ RunEOF

RunSpec == RunInit /\ [][RunNext]_vars

(***************************************************************************)
(* WireSpec and FrameSpec: Conn.send, WriteLineMessage and ReadLineMessage *)
(* at the level of bytes.  The writer takes the bytes of one Write call    *)
(* one at a time, which is the least an io.Writer shared with other        *)
(* writers promises.                                                       *)
(***************************************************************************)
\* the Conn is not otherwise in use
ConnIdle ==
    /\ conn = NewConn
    /\ calls = [p \in Callers |-> [pc |-> "idle", id |-> 0, resp |-> NoMsg]]
    /\ inbox = <<>>
    /\ outbox = <<>>
    /\ peerSent = 0
    /\ runPc = "reading"
    /\ wOpen = TRUE
    /\ rEOF = FALSE
    /\ handler = "none"
    /\ notification = "none"
    /\ invoked = <<>>
    /\ RunnerIdle

\* send: c.writeMu.Lock() (line 186)
SendLock(t) ==
    /\ senders[t].pc = "start"
    /\ Lockable(writeMu)
    /\ writeMu' = t
    /\ senders' = [senders EXCEPT ![t].pc = "locked"]
    /\ UNCHANGED <<wire, wireClosed, rdPos, readBack>>
    /\ UNCHANGED <<conn, calls, inbox, outbox, peerSent, runPc, wOpen, rEOF, handlerVars,
                   runnerVars, termVars>>

\* WriteLineMessage refuses the data; the deferred Unlock runs
SendReject(t) ==
    /\ senders[t].pc = "locked"
    /\ WriteLineError(senders[t].data) # ""
    /\ senders' = [senders EXCEPT ![t].pc = "failed",
                                  ![t].err = WriteLineError(senders[t].data)]
    /\ writeMu' = 0
    /\ UNCHANGED <<wire, wireClosed, rdPos, readBack>>
    /\ UNCHANGED <<conn, calls, inbox, outbox, peerSent, runPc, wOpen, rEOF, handlerVars,
                   runnerVars, termVars>>

\* w.Write(append(data, '\n')): the writer takes the next byte
SendWriteByte(t) ==
    /\ senders[t].pc = "locked"
    /\ WriteLineError(senders[t].data) = ""
    /\ senders[t].pos < Len(Frame(senders[t].data))
    /\ wire' = Append(wire, Frame(senders[t].data)[senders[t].pos + 1])
    /\ senders' = [senders EXCEPT ![t].pos = @ + 1,
                                  ![t].writes = IF senders[t].pos = 0 THEN @ + 1 ELSE @]
    /\ UNCHANGED <<writeMu, wireClosed, rdPos, readBack>>
    /\ UNCHANGED <<conn, calls, inbox, outbox, peerSent, runPc, wOpen, rEOF, handlerVars,
                   runnerVars, termVars>>

\* w.Write returned, WriteLineMessage returns nil; the deferred Unlock runs
SendUnlock(t) ==
    /\ senders[t].pc = "locked"
    /\ WriteLineError(senders[t].data) = ""
    /\ senders[t].pos = Len(Frame(senders[t].data))
    /\ senders' = [senders EXCEPT ![t].pc = "sent"]
    /\ writeMu' = 0
    /\ UNCHANGED <<wire, wireClosed, rdPos, readBack>>
    /\ UNCHANGED <<conn, calls, inbox, outbox, peerSent, runPc, wOpen, rEOF, handlerVars,
                   runnerVars, termVars>>

\* every send has returned and the writer is closed
WireClose ==
    /\ ~wireClosed
    /\ \A t \in Senders : senders[t].pc \in {"none", "sent", "failed"}
    /\ wireClosed' = TRUE
    /\ UNCHANGED <<senders, writeMu, wire, rdPos, readBack>>
    /\ UNCHANGED <<conn, calls, inbox, outbox, peerSent, runPc, wOpen, rEOF, handlerVars,
                   runnerVars, termVars>>

\* one call of ReadLineMessage on the bytes written and not yet consumed
ReadStep ==
    /\ wireClosed
    /\ IF readBack = <<>> THEN TRUE ELSE readBack[Len(readBack)].err = ""
    /\ LET r == ReadLineMessage(SubSeq(wire, rdPos + 1, Len(wire)))
       IN /\ readBack' = Append(readBack, [payload |-> r.payload, err |-> r.err])
          /\ rdPos' = rdPos + r.n
    /\ UNCHANGED <<senders, writeMu, wire, wireClosed>>
    /\ UNCHANGED <<conn, calls, inbox, outbox, peerSent, runPc, wOpen, rEOF, handlerVars,
                   runnerVars, termVars>>

\* the data the concurrent senders marshal: two that are written, one with
\* leading white space, and two that WriteLineMessage refuses
WirePayloads == {<<"a", "b">>, <<"b">>, <<SP, "a">>, <<>>, <<"a", LF, "b">>}

WireInit ==
    /\ ConnIdle
    /\ TermIdle
    /\ senders \in [Senders -> {[pc |-> "start", data |-> d, pos |-> 0, writes |-> 0, err |-> ""] : d \in WirePayloads}]
    /\ writeMu = 0
    /\ wire = <<>>
    /\ wireClosed = FALSE
    /\ rdPos = 0
    /\ readBack = <<>>

WireNext ==
    \/ \E t \in Senders : SendLock(t)
    \/ \E t \in Senders : SendReject(t)
    \/ \E t \in Senders : SendWriteByte(t)
    \/ \E t \in Senders : SendUnlock(t)
    \/ WireClose
    \/ ReadStep

WireSpec == WireInit /\ [][WireNext]_vars

\* every sequence of at most MaxLen bytes
Payloads == UNION {[1..n -> Bytes] : n \in 0..MaxLen}

FrameInit ==
    /\ ConnIdle
    /\ TermIdle
    /\ senders \in {[t \in Senders |-> IF t = 1
                                       THEN [pc |-> "start", data |-> x, pos |-> 0, writes |-> 0,
                                             err |-> ""]
                                       ELSE [pc |-> "none", data |-> <<>>, pos |-> 0, writes |-> 0, err |-> ""]] :
                     x \in Payloads}
    /\ writeMu = 0
    /\ wire = <<>>
    /\ wireClosed = FALSE
    /\ rdPos = 0
    /\ readBack = <<>>

FrameNext ==
    \/ SendLock(1)
    \/ SendReject(1)
    \/ SendWriteByte(1)
    \/ SendUnlock(1)
    \/ WireClose
    \/ ReadStep

FrameSpec == FrameInit /\ [][FrameNext]_vars

(***************************************************************************)
(* ReadSpec: ReadLineMessage called again and again on a stream of at most *)
(* MaxStream bytes that ends with EOF.                                     *)
(***************************************************************************)
Streams == UNION {[1..n -> Bytes] : n \in 0..MaxStream}

ReadInit ==
    /\ ConnIdle
    /\ TermIdle
    /\ senders = [t \in Senders |-> [pc |-> "none", data |-> <<>>, pos |-> 0, writes |-> 0,
                                     err |-> ""]]
    /\ writeMu = 0
    /\ wire \in Streams
    /\ wireClosed = TRUE
    /\ rdPos = 0
    /\ readBack = <<>>

ReadNext == ReadStep

ReadSpec == ReadInit /\ [][ReadNext]_vars

(***************************************************************************)
(* BufSpec: one cappedBuffer with a positive limit, the two streamOutput   *)
(* goroutines writing to it what they read from stdout ("o") and from      *)
(* stderr ("e"), and a reader taking snapshots.                            *)
(***************************************************************************)
StreamByte(stream) == IF stream = "stdout" THEN "o" ELSE "e"

\* io.Copy hands the n bytes it read from the stream to buffer.Write
BufWrite(stream, n) ==
    /\ Len(cbWritten) + n <= MaxBytes
    /\ LET p == [i \in 1..n |-> StreamByte(stream)]
       IN /\ cb' = cappedWrite(cb, p)
          /\ cbWritten' = cbWritten \o p
    /\ cbSnap' = [cbSnap EXCEPT !.taken = FALSE]
    /\ UNCHANGED <<tmCfg, request, terminals, procs, tpc, ret, fsReq, fsRet, fsNew>>
    /\ UNCHANGED <<connVars, runnerVars>>

BufSnapshot ==
    /\ cbSnap' = [taken |-> TRUE, data |-> Snapshot(cb).data,
                  truncated |-> Snapshot(cb).truncated]
    /\ UNCHANGED <<tmCfg, request, terminals, procs, tpc, ret, cb, cbWritten, fsReq, fsRet, fsNew>>
    /\ UNCHANGED <<connVars, runnerVars>>

BufInit ==
    /\ ConnIdle
    /\ WireIdle
    /\ tmCfg = [enabled |-> TRUE, maxOutputBytes |-> MaxMessageSize, root |-> NoPath]
    /\ request = NoRequest
    /\ ManagerIdle
    /\ FsIdle
    /\ cb \in {[buf |-> <<>>, limit |-> l, truncated |-> FALSE] : l \in 1..MaxLimit}
    /\ cbWritten = <<>>
    /\ cbSnap = [taken |-> FALSE, data |-> <<>>, truncated |-> FALSE]

BufNext ==
    \/ \E stream \in {"stdout", "stderr"}, n \in 0..MaxChunk : BufWrite(stream, n)
    \/ BufSnapshot

BufSpec == BufInit /\ [][BufNext]_vars

(***************************************************************************)
(* TerminalManager.  procs[i] is the terminalProcess made by the i-th      *)
(* successful Create, whose id is term_i; terminals is the key set of the  *)
(* map.  The child is "running" or "exited" (with its exit code and, when  *)
(* a signal ended it, the signal); the goroutine of Create, lines 154-166, *)
(* goes from "wait" (in cmd.Wait) to "reaped" (Wait returned), "recorded"  *)
(* (exitCode and signal stored) and "closed" (done closed).  The terminal  *)
(* methods run on the one thread that serves the session's requests, at    *)
(* tpc, which also remembers whether done was closed when the method was   *)
(* called; ret is what the last method returned.                           *)
(***************************************************************************)
\* bytes the child of one terminal writes to its two streams
MaxOutput == 1

Unset == [code |-> 0, set |-> FALSE]

\* the error of TerminalManager.Create for the request, "" if there is none
CreateError(cfg, req) ==
    LET m == matchAllowlist(Commands, req.command, req.args)
        cwd == IF req.cwd = NoPath THEN cfg.root ELSE req.cwd
        resolved == ResolvePath(cfg.root, cwd)
    IN IF ~cfg.enabled THEN "terminal execution disabled"
       ELSE IF ~m.ok THEN "command not in allowlist"
       ELSE IF \E i \in 1..Len(m.extra) : containsShellMeta(m.extra[i])
            THEN "argument contains disallowed characters"
       ELSE IF cwd = NoPath THEN "workspace root not set"
       ELSE IF ~cwd.abs THEN "cwd must be absolute"
       ELSE IF resolved.err # "" THEN "invalid cwd"
       ELSE IF \/ ~EvalSymlinks(resolved.path.comps).ok
               \/ EvalSymlinks(resolved.path.comps).path \notin Dirs
            THEN "start command"
       ELSE ""

\* strings.Join(elems, " ")
RECURSIVE JoinSpace(_)
JoinSpace(elems) ==
    IF elems = <<>> THEN <<>>
    ELSE IF Len(elems) = 1 THEN elems[1]
    ELSE elems[1] \o <<" ">> \o JoinSpace(Tail(elems))

\* the command line of Create, lines 93-96: the template as it is
\* configured, here its tokens with single blanks, and the extra tokens
fullCmdOf(template, extraArgs) ==
    IF Len(extraArgs) > 0
    THEN JoinSpace(template) \o <<" ">> \o JoinSpace(extraArgs)
    ELSE JoinSpace(template)

\* the fields the shell of buildShellCommand (sh -c) splits a command line
\* without quoting into: runs of characters other than blank and tab
RECURSIVE shellFields(_, _)
shellFields(line, cur) ==
    IF line = <<>>
    THEN IF cur = <<>> THEN <<>> ELSE <<cur>>
    ELSE IF line[1] \in {" ", "\t"}
    THEN (IF cur = <<>> THEN <<>> ELSE <<cur>>) \o shellFields(Tail(line), <<>>)
    ELSE shellFields(Tail(line), Append(cur, line[1]))

ShellWords(line) == shellFields(line, <<>>)

\* the terminalProcess of Create, lines 120-149, with its child just started
NewProcess(cfg, req, id) ==
    LET m == matchAllowlist(Commands, req.command, req.args)
        cwd == IF req.cwd = NoPath THEN cfg.root ELSE req.cwd
    IN [id |-> id,
        cmdDef |-> m.entry,
        extraArgs |-> m.extra,
        fullCmd |-> fullCmdOf(Commands[m.entry].template, m.extra),
        dir |-> ResolvePath(cfg.root, cwd).path,
        output |-> [buf |-> <<>>, limit |-> bufferLimit(cfg.maxOutputBytes, req.outputLimit),
                    truncated |-> FALSE],
        written |-> 0,
        os |-> "running", osCode |-> 0, osSignal |-> "",
        wpc |-> "wait", reaps |-> 0, closes |-> 0,
        exitCode |-> Unset, signal |-> "",
        cancelled |-> FALSE, released |-> FALSE]

Create(req) ==
    /\ tpc.pc = "idle"
    /\ Len(procs) < MaxTerms
    /\ request' = req
    /\ IF CreateError(tmCfg, req) # ""
       THEN /\ ret' = [NoResult EXCEPT !.op = "create", !.err = CreateError(tmCfg, req)]
            /\ UNCHANGED <<terminals, procs>>
       ELSE LET id == Len(procs) + 1
            IN /\ procs' = Append(procs, NewProcess(tmCfg, req, id))
               /\ terminals' = terminals \cup {id}
               /\ ret' = [NoResult EXCEPT !.op = "create", !.id = id]
    /\ UNCHANGED <<tmCfg, tpc, cb, cbWritten, cbSnap, fsReq, fsRet, fsNew>>
    /\ UNCHANGED <<connVars, runnerVars>>

\* the terminals of the map
get(id) == id \in terminals

TermUnchanged ==
    UNCHANGED <<tmCfg, request, cb, cbWritten, cbSnap, fsReq, fsRet, fsNew, connVars, runnerVars>>

\* the child ends by itself with an exit code
ProcExit(i, code) ==
    /\ procs[i].os = "running"
    /\ procs' = [procs EXCEPT ![i].os = "exited", ![i].osCode = code]
    /\ UNCHANGED <<terminals, tpc, ret>>
    /\ TermUnchanged

\* a kill signal ends the child if it still runs
Killed(tp) ==
    IF tp.os = "running"
    THEN [tp EXCEPT !.os = "exited", !.osCode = -1, !.osSignal = "killed"]
    ELSE tp

\* the goroutine exec starts for the command's context kills the child when
\* the context is cancelled before cmd.Wait returns
CtxKill(i) ==
    /\ procs[i].cancelled
    /\ procs[i].os = "running"
    /\ procs' = [procs EXCEPT ![i] = Killed(procs[i])]
    /\ UNCHANGED <<terminals, tpc, ret>>
    /\ TermUnchanged

\* streamOutput: io.Copy writes a byte of a stream to the buffer
StreamWrite(i, stream) ==
    /\ procs[i].wpc = "wait"
    /\ procs[i].written < MaxOutput
    /\ procs' = [procs EXCEPT ![i].output = cappedWrite(@, <<StreamByte(stream)>>),
                              ![i].written = @ + 1]
    /\ UNCHANGED <<terminals, tpc, ret>>
    /\ TermUnchanged

\* a bug: done is closed before the exit code and the signal are stored
waitStep_ClosesFirst(tp) ==
    IF tp.wpc = "wait"
    THEN [tp EXCEPT !.wpc = "reaped", !.reaps = @ + 1]
    ELSE IF tp.wpc = "reaped"
    THEN [tp EXCEPT !.wpc = "recorded", !.closes = @ + 1]
    ELSE [tp EXCEPT !.wpc = "closed",
                      !.exitCode = [code |-> tp.osCode, set |-> TRUE],
                      !.signal = tp.osSignal]

\* one step of the goroutine of Create, lines 154-166
waitStep(tp) ==
    IF tp.wpc = "wait"
    THEN [tp EXCEPT !.wpc = "reaped", !.reaps = @ + 1]
    ELSE IF tp.wpc = "reaped"
    THEN [tp EXCEPT !.wpc = "recorded",
                      !.exitCode = [code |-> tp.osCode, set |-> TRUE],
                      !.signal = tp.osSignal]
    ELSE [tp EXCEPT !.wpc = "closed", !.closes = @ + 1]

WaitStep(i) ==
    /\ procs[i].wpc # "closed"
    /\ procs[i].wpc = "wait" => procs[i].os = "exited"
    /\ procs' = [procs EXCEPT ![i] = waitStep(procs[i])]
    /\ UNCHANGED <<terminals, tpc, ret>>
    /\ TermUnchanged

\* a bug: done counts as closed as soon as the child has exited
doneClosed_WhenExited(tp) == tp.os = "exited"

\* whether a receive from proc.done succeeds
doneClosed(tp) == tp.closes > 0

\* the exit status a method reads from the process
ExitStatusOf(tp) ==
    [present |-> TRUE, exitCode |-> tp.exitCode.code, signal |-> tp.signal]

NotFound(op, id) == [NoResult EXCEPT !.op = op, !.id = id, !.err = "terminal not found"]

Output(id) ==
    /\ tpc.pc = "idle"
    /\ ret' = IF ~get(id)
              THEN NotFound("output", id)
              ELSE [op |-> "output", id |-> id, err |-> "",
                    output |-> Snapshot(procs[id].output).data,
                    truncated |-> Snapshot(procs[id].output).truncated,
                    exitStatus |-> IF doneClosed(procs[id])
                                   THEN ExitStatusOf(procs[id])
                                   ELSE NoStatus]
    /\ UNCHANGED <<terminals, procs, tpc>>
    /\ TermUnchanged

\* WaitForExit up to the receive from done
WaitForExit(id) ==
    /\ tpc.pc = "idle"
    /\ IF ~get(id)
       THEN ret' = NotFound("wait", id) /\ UNCHANGED tpc
       ELSE tpc' = [pc |-> "wait", id |-> id, wasDone |-> procs[id].closes > 0] /\ UNCHANGED ret
    /\ UNCHANGED <<terminals, procs>>
    /\ TermUnchanged

\* the receive from done returns once done is closed
WaitReturn ==
    /\ tpc.pc = "wait"
    /\ doneClosed(procs[tpc.id])
    /\ ret' = [NoResult EXCEPT !.op = "wait", !.id = tpc.id,
                               !.exitStatus = ExitStatusOf(procs[tpc.id])]
    /\ tpc' = [pc |-> "idle", id |-> 0, wasDone |-> FALSE]
    /\ UNCHANGED <<terminals, procs>>
    /\ TermUnchanged

\* Kill and Release up to proc.cancel()
Cancel(op, id) ==
    /\ tpc.pc = "idle"
    /\ IF ~get(id)
       THEN ret' = NotFound(op, id) /\ UNCHANGED <<tpc, procs>>
       ELSE /\ tpc' = [pc |-> op, id |-> id, wasDone |-> procs[id].closes > 0]
            /\ procs' = [procs EXCEPT ![id].cancelled = TRUE]
            /\ UNCHANGED ret
    /\ UNCHANGED terminals
    /\ TermUnchanged

\* os.Process.Kill: the error it returns; a process whose Wait has returned
\* is not signalled
ProcessKill(tp) == IF tp.wpc = "wait" THEN "" ELSE "os: process already finished"

Kill(id) == Cancel("kill", id)

\* Kill from proc.cmd.Process.Kill() on
KillSignal ==
    /\ tpc.pc = "kill"
    /\ procs' = [procs EXCEPT ![tpc.id] = IF ProcessKill(@) = "" THEN Killed(@) ELSE @]
    /\ ret' = [NoResult EXCEPT !.op = "kill", !.id = tpc.id,
                               !.err = ProcessKill(procs[tpc.id])]
    /\ tpc' = [pc |-> "idle", id |-> 0, wasDone |-> FALSE]
    /\ UNCHANGED terminals
    /\ TermUnchanged

Release(id) == Cancel("release", id)

\* Release from the Process.Kill() of its Kill on: the error is dropped and
\* the terminal is deleted from the map
ReleaseDelete ==
    /\ tpc.pc = "release"
    /\ procs' = [procs EXCEPT ![tpc.id] =
                    [(IF ProcessKill(@) = "" THEN Killed(@) ELSE @) EXCEPT !.released = TRUE]]
    /\ terminals' = terminals \ {tpc.id}
    /\ ret' = [NoResult EXCEPT !.op = "release", !.id = tpc.id]
    /\ tpc' = [pc |-> "idle", id |-> 0, wasDone |-> FALSE]
    /\ TermUnchanged

\* the workspace root of the sessions of the model
Root == [abs |-> TRUE, comps |-> <<"ws">>]

\* the terminal/create requests of TermSpec: one that is allowed and one that
\* is not
TermRequests ==
    {[command |-> c, args |-> <<>>, cwd |-> NoPath, outputLimit |-> 0] :
        c \in {<<"run">>, <<"x">>}}

TermInit ==
    /\ ConnIdle
    /\ WireIdle
    /\ BufIdle
    /\ FsIdle
    /\ ManagerIdle
    /\ tmCfg = [enabled |-> TRUE, maxOutputBytes |-> MaxOutput, root |-> Root]
    /\ request = NoRequest

TermNext ==
    \/ \E req \in TermRequests : Create(req)
    \/ \E i \in 1..Len(procs) :
          \/ \E code \in {0, 1} : ProcExit(i, code)
          \/ CtxKill(i)
          \/ \E stream \in {"stdout", "stderr"} : StreamWrite(i, stream)
          \/ WaitStep(i)
    \/ \E id \in 1..MaxTerms : Output(id) \/ WaitForExit(id) \/ Kill(id) \/ Release(id)
    \/ WaitReturn
    \/ KillSignal
    \/ ReleaseDelete

TermSpec == TermInit /\ [][TermNext]_vars

\* the serving thread leaves the call it is in
ServingReturns == WaitReturn \/ KillSignal \/ ReleaseDelete

\* a step of the goroutines of command i: the kill on a cancelled context,
\* the wait goroutine
CommandGoroutines(i) == i \in 1..Len(procs) /\ (CtxKill(i) \/ WaitStep(i))

\* the goroutines are scheduled, and the agent sends a terminal/kill for
\* every terminal, which Conn.Run handles once it reads it; no command is
\* obliged to exit by itself
TermFairSpec ==
    /\ TermSpec
    /\ WF_vars(ServingReturns)
    /\ \A i \in 1..MaxTerms : WF_vars(CommandGoroutines(i))
    /\ \A id \in 1..MaxTerms : WF_vars(Kill(id))

(***************************************************************************)
(* CreateSpec: Create on a manager with some configuration and workspace   *)
(* root, for a request drawn from CreateCases.                             *)
(***************************************************************************)
Words == {<<"npm">>, <<"install">>, <<"run">>, <<"x">>}

\* the tokens of args: words, a token with each of the characters of
\* MetaChars, and tokens with characters that are not among them: a star, a
\* blank and a tab
ArgTokens ==
    Words \cup {<<"x", c>> : c \in MetaChars}
    \cup {<<"x", "*">>, <<"x", " ", "y">>, <<"x", "\t", "y">>}

RECURSIVE SeqsUpTo(_, _)
SeqsUpTo(S, n) ==
    IF n = 0
    THEN {<<>>}
    ELSE SeqsUpTo(S, n - 1) \cup {Append(q, x) : q \in SeqsUpTo(S, n - 1), x \in S}

\* the values of cwd: "", a relative path, the root, directories in it, a
\* directory outside, a symbolic link that leaves the root, paths that do
\* not exist, a path that leaves the root by "..", a blocked path, and
\* paths with ".." after a symbolic link
Cwds ==
    {NoPath, [abs |-> FALSE, comps |-> <<"sub">>]}
    \cup {[abs |-> TRUE, comps |-> c] :
            c \in {<<"ws">>, <<"ws", "sub">>, <<"out">>, <<"ws", "link">>, <<"ws", "new">>,
                   <<"ws", "link", "new">>, <<"ws", "..", "out">>, <<"ws", ".env">>,
                   <<"ws", "..cache">>, <<"ws", "link", "..", "ws", "sub">>,
                   <<"ws", "in">>, <<"ws", "in", "..">>, <<"ws", "in", "..", "..">>}}

CreateCases ==
    {[cfg |-> [enabled |-> e, maxOutputBytes |-> MaxMessageSize, root |-> Root],
      req |-> [command |-> c, args |-> a, cwd |-> NoPath, outputLimit |-> 0]] :
        e \in BOOLEAN, c \in Words, a \in SeqsUpTo(ArgTokens, MaxArgsLen)}
    \cup
    {[cfg |-> [enabled |-> TRUE, maxOutputBytes |-> mx, root |-> r],
      req |-> [command |-> <<"run">>, args |-> <<>>, cwd |-> d, outputLimit |-> l]] :
        mx \in {-1, 0, 2, MaxMessageSize}, r \in {NoPath, Root}, d \in Cwds,
        l \in {-1, 0, 1, 3, MaxMessageSize + 1}}

CreateInit ==
    /\ ConnIdle
    /\ WireIdle
    /\ BufIdle
    /\ FsIdle
    /\ ManagerIdle
    /\ \E c \in CreateCases : tmCfg = c.cfg /\ request = c.req

CreateNext == Create(request)

CreateSpec == CreateInit /\ [][CreateNext]_vars

(***************************************************************************)
(* FsSpec: one call of Session.ResolvePath, of fs/read_text_file or of     *)
(* fs/write_text_file on the file system of Dirs, Links and Files, in a    *)
(* session with or without a workspace root.                               *)
(***************************************************************************)
\* FsSpec: the largest line and limit of a read
MaxLine == 4

\* bufio.ScanLines over the bytes left, cur being the line read so far
RECURSIVE ScanFrom(_, _)
ScanFrom(bytes, cur) ==
    LET dropCR == IF cur # <<>> /\ cur[Len(cur)] = "\r"
                  THEN SubSeq(cur, 1, Len(cur) - 1)
                  ELSE cur
    IN IF bytes = <<>>
       THEN IF cur = <<>> THEN <<>> ELSE <<dropCR>>
       ELSE IF Head(bytes) = "\n"
            THEN <<dropCR>> \o ScanFrom(Tail(bytes), <<>>)
            ELSE ScanFrom(Tail(bytes), Append(cur, Head(bytes)))

\* strings.Join(lines, "\n")
RECURSIVE JoinLines(_)
JoinLines(lines) ==
    IF lines = <<>> THEN <<>>
    ELSE IF Len(lines) = 1 THEN lines[1]
    ELSE lines[1] \o <<"\n">> \o JoinLines(Tail(lines))

\* a bug: end_line is one line further
readArgs_EndOffByOne(line, limit) ==
    IF limit > 0
    THEN [startLine |-> IF line <= 0 THEN 1 ELSE line,
          endLine |-> (IF line <= 0 THEN 1 ELSE line) + limit]
    ELSE IF line > 0
         THEN [startLine |-> line, endLine |-> 0]
         ELSE [startLine |-> 0, endLine |-> 0]

\* handleFSRead: start_line and end_line of the args, 0 when absent
readArgs(line, limit) ==
    IF limit > 0
    THEN [startLine |-> IF line <= 0 THEN 1 ELSE line,
          endLine |-> (IF line <= 0 THEN 1 ELSE line) + limit - 1]
    ELSE IF line > 0
         THEN [startLine |-> line, endLine |-> 0]
         ELSE [startLine |-> 0, endLine |-> 0]

\* the scan loop of FSTools.Read from line lineNum on
RECURSIVE scanWindow(_, _, _, _)
scanWindow(lines, lineNum, startLine, endLine) ==
    IF lineNum > Len(lines) THEN <<>>
    ELSE IF startLine > 0 /\ lineNum < startLine
         THEN scanWindow(lines, lineNum + 1, startLine, endLine)
    ELSE IF endLine > 0 /\ lineNum > endLine THEN <<>>
    ELSE <<lines[lineNum]>> \o scanWindow(lines, lineNum + 1, startLine, endLine)

\* FSTools.Read: the error, or the content
Read(root, path, startLine, endLine) ==
    LET resolved == ResolvePath(root, path)
        at == EvalSymlinks(resolved.path.comps)
    IN IF resolved.err # "" THEN [err |-> resolved.err, content |-> <<>>]
       ELSE IF ~at.ok THEN [err |-> "failed to stat file", content |-> <<>>]
       ELSE IF at.path \notin DOMAIN Files
            THEN [err |-> "path is a directory, not a file", content |-> <<>>]
       ELSE [err |-> "",
             content |-> JoinLines(scanWindow(ScanFrom(Files[at.path], <<>>), 1,
                                              startLine, endLine))]

\* os.MkdirAll on a cleaned path: the part of it that exists is followed
\* through its links and the rest is made below it
MkdirAll(comps) ==
    LET there == {i \in 0..Len(comps) : EvalSymlinks(SubSeq(comps, 1, i)).ok}
        k == CHOOSE i \in there : \A j \in there : j <= i
        base == EvalSymlinks(SubSeq(comps, 1, k)).path
    IN IF base \in DOMAIN Files
       THEN [ok |-> FALSE, path |-> base, made |-> {}]
       ELSE [ok |-> TRUE,
             path |-> base \o SubSeq(comps, k + 1, Len(comps)),
             made |-> {base \o SubSeq(comps, k + 1, j) : j \in (k + 1)..Len(comps)}]

\* FSTools.Write from os.MkdirAll on, for the path ResolvePath returned
writeResolved(absPath) ==
    LET dir == MkdirAll(IF absPath = <<>> THEN absPath
                        ELSE SubSeq(absPath, 1, Len(absPath) - 1))
        target == IF absPath = <<>> THEN absPath ELSE Append(dir.path, absPath[Len(absPath)])
        file == IF target \in DOMAIN Links THEN Links[target] ELSE target
    IN IF ~dir.ok
       THEN [err |-> "failed to create parent directory", dirs |-> dir.made, files |-> {}]
       ELSE IF file \in Dirs \cup dir.made
            THEN [err |-> "failed to write file", dirs |-> dir.made, files |-> {}]
            ELSE [err |-> "", dirs |-> dir.made, files |-> {file}]

\* FSTools.Write: the error, and the directories and the file it makes
Write(root, path) ==
    IF ResolvePath(root, path).err # ""
    THEN [err |-> ResolvePath(root, path).err, dirs |-> {}, files |-> {}]
    ELSE writeResolved(ResolvePath(root, path).path.comps)

\* Session.ResolvePath called by a tool of the session
FsResolvePath ==
    /\ fsReq.op = "resolve"
    /\ fsRet.op = "none"
    /\ fsRet' = [op |-> "resolve", err |-> ResolvePath(tmCfg.root, fsReq.path).err,
                 path |-> ResolvePath(tmCfg.root, fsReq.path).path, content |-> <<>>]
    /\ UNCHANGED <<tmCfg, request, terminals, procs, tpc, ret, cb, cbWritten, cbSnap,
                   fsReq, fsNew>>
    /\ UNCHANGED <<connVars, runnerVars>>

\* Runner.handleFSRead
handleFSRead ==
    /\ fsReq.op = "read"
    /\ fsRet.op = "none"
    /\ LET args == readArgs(fsReq.line, fsReq.limit)
           res == Read(tmCfg.root, fsReq.path, args.startLine, args.endLine)
       IN fsRet' = IF fsReq.path = NoPath \/ ~fsReq.path.abs
                   THEN [NoReturn EXCEPT !.op = "read", !.err = "path must be absolute"]
                   ELSE IF res.err # ""
                        THEN [NoReturn EXCEPT !.op = "read", !.err = "failed to read file"]
                        ELSE [NoReturn EXCEPT !.op = "read", !.content = res.content]
    /\ UNCHANGED <<tmCfg, request, terminals, procs, tpc, ret, cb, cbWritten, cbSnap,
                   fsReq, fsNew>>
    /\ UNCHANGED <<connVars, runnerVars>>

\* Runner.handleFSWrite
handleFSWrite ==
    /\ fsReq.op = "write"
    /\ fsRet.op = "none"
    /\ IF fsReq.path = NoPath \/ ~fsReq.path.abs
       THEN /\ fsRet' = [NoReturn EXCEPT !.op = "write", !.err = "path must be absolute"]
            /\ UNCHANGED fsNew
       ELSE LET res == Write(tmCfg.root, fsReq.path)
            IN /\ fsRet' = [NoReturn EXCEPT !.op = "write",
                               !.err = IF res.err # "" THEN "failed to write file" ELSE ""]
               /\ fsNew' = [dirs |-> res.dirs, files |-> res.files]
    /\ UNCHANGED <<tmCfg, request, terminals, procs, tpc, ret, cb, cbWritten, cbSnap, fsReq>>
    /\ UNCHANGED <<connVars, runnerVars>>

\* the paths of the calls: relative and absolute, with "..", through the
\* links, to what exists and to what does not, blocked and not
FsPaths ==
    {[abs |-> FALSE, comps |-> c] :
        c \in {<<>>, <<"f.txt">>, <<"sub">>, <<"..", "out", "secret">>, <<"link">>,
               <<"in", "..", "..">>, <<"key.pem">>, <<"new.txt">>, <<"newdir", "f.txt">>}}
    \cup
    {[abs |-> TRUE, comps |-> c] :
        c \in {<<>>, <<"ws">>, <<"ws", "f.txt">>, <<"ws", "g.txt">>, <<"ws", "sub">>,
               <<"out", "secret">>, <<"ws", "link">>, <<"ws", "link", "secret">>,
               <<"ws", "in">>, <<"ws", "in", "..">>, <<"ws", "in", "..", "..">>,
               <<"ws", "in", "..", "..", "out", "secret">>, <<"ws", "key.pem">>,
               <<"ws", ".env">>, <<"ws", "id.key">>, <<"ws", "..cache">>, <<"ws", "new.txt">>,
               <<"ws", "sub", "new.txt">>, <<"ws", "newdir", "f.txt">>,
               <<"ws", "newdir", "a", "f.txt">>, <<"ws", "f.txt", "x">>,
               <<"ws", "link", "new.txt">>, <<"ws", "link", "..", "ws", "sub">>,
               <<"ws", "node_modules", "x">>}}

FsCalls ==
    {[NoCall EXCEPT !.op = "resolve", !.path = p] : p \in FsPaths}
    \cup {[NoCall EXCEPT !.op = "read", !.path = p, !.line = l, !.limit = n] :
            p \in FsPaths, l \in 0..MaxLine, n \in 0..MaxLine}
    \cup {[NoCall EXCEPT !.op = "write", !.path = p, !.content = <<"a", "\n">>] :
            p \in FsPaths}

FsInit ==
    /\ ConnIdle
    /\ WireIdle
    /\ BufIdle
    /\ ManagerIdle
    /\ tmCfg \in {[enabled |-> TRUE, maxOutputBytes |-> MaxMessageSize, root |-> r] :
                    r \in {NoPath, Root}}
    /\ request = NoRequest
    /\ fsReq \in FsCalls
    /\ fsRet = NoReturn
    /\ fsNew = [dirs |-> {}, files |-> {}]

FsNext == FsResolvePath \/ handleFSRead \/ handleFSWrite

FsSpec == FsInit /\ [][FsNext]_vars

(***************************************************************************)
(* C1: a call is resolved only by a response whose id is the id minted for *)
(* that call, and it receives at most one response: a returned call holds  *)
(* a response with its own id, and the messages handed to a call's channel *)
(* (buffered or already received) are never more than one.                 *)
(***************************************************************************)
C1_OnlyOwnIdResolves ==
    \A p \in Callers :
        /\ calls[p].pc = "returned" =>
              /\ calls[p].resp.id = IdRaw(calls[p].id)
              /\ conn.chans[calls[p].id] = <<>>
        /\ calls[p].pc \in {"waiting", "cancelled", "send error"} =>
              /\ Len(conn.chans[calls[p].id]) <= 1
              /\ \A i \in 1..Len(conn.chans[calls[p].id]) :
                    conn.chans[calls[p].id][i].id = IdRaw(calls[p].id)

\* a call returned while another call was in flight and lines with foreign
\* ids had been read
C1_Witness ==
    \E p, q \in Callers :
        /\ p # q
        /\ calls[p].pc = "returned"
        /\ calls[q].pc = "waiting"
        /\ peerSent = MaxPeerMsgs
        /\ inbox = <<>>

(***************************************************************************)
(* Spec: the Runner.                                                       *)
(***************************************************************************)
\* the error code an agent or the client puts in an error response
PeerError == ErrMethodNotFound

\* the session/new params the client sends: a usable cwd and a relative one
NewParams == {"/ws", "rel"}

\* lines of the upstream client with request id i.  The first line of a client
\* asks for a session or is a request the broker rejects; the later ones use
\* the sessions.
ClientLines(i) ==
    IF i = IdRaw(1)
    THEN {RPCMessage(i, "session/new", p, "", NoError) : p \in NewParams}
         \cup {RPCMessage(i, "session/load", "sA", "", NoError),
               RPCMessage(i, "initialize", "init", "", NoError),
               [RPCMessage(i, "session/prompt", "sA", "", NoError) EXCEPT !.jsonrpc = "1.0"]}
    ELSE {RPCMessage(i, "session/prompt", p, "", NoError) : p \in SessionIds}
         \cup {RPCMessage(i, "session/new", "/ws", "", NoError),
               RPCMessage(i, "initialize", "init", "", NoError),
               RPCMessage(i, "session/cancel", "sA", "", NoError),
               RPCMessage("", "session/cancel", "sA", "", NoError),
               RPCMessage(i, "_tldw/session/close", "sA", "", NoError),
               RPCMessage(i, "_tldw/session/close", EmptyObject, "", NoError)}

\* what an agent may answer to a request of the broker
AgentResults(c, method, n) ==
    CASE method = "initialize" -> InitResults
      [] method = "session/new" -> SessionIds \cup {EmptyObject, NotAnObject}
      [] OTHER -> {Tag(c, n)}

RunnerStart ==
    /\ agentCommand \in {"", "agent"}
    /\ cachedCaps = NoCaps
    /\ sessions = <<>>
    /\ upstream = NewConn
    /\ downstream = [c \in Children |-> NewConn]
    /\ proc = [c \in Children |-> "none"]
    /\ spawned = 0
    /\ upIn = <<>>
    /\ upOut = <<>>
    /\ clientSent = 0
    /\ answered = {}
    /\ wrote = [c \in Children |-> <<>>]
    /\ dsOut = [c \in Children |-> <<>>]
    /\ agentEvents = 0
    /\ uPc = IdleThread
    /\ dPc = [c \in Children |-> [IdleThread EXCEPT !.pc = "none"]]
    /\ wPc = [c \in Children |-> [pc |-> "none", sessionID |-> ""]]
    /\ newOutcome = [c \in Children |-> "none"]

RunnerInit == TermIdle /\ RunnerStart

\* the Conn of the single-connection specifications is not in use
ConnStart ==
    /\ conn = NewConn
    /\ calls = [p \in Callers |-> [pc |-> "idle", id |-> 0, resp |-> NoMsg]]
    /\ inbox = <<>>
    /\ outbox = <<>>
    /\ peerSent = 0
    /\ runPc = "reading"
    /\ wOpen = TRUE
    /\ rEOF = FALSE
    /\ handler = "none"
    /\ notification = "none"
    /\ invoked = <<>>
    /\ WireIdle

Init == RunnerInit /\ ConnStart

\* a bug: the lookup falls back to some registered session
getSession_AnyForUnknown(sess, id) ==
    IF id \in DOMAIN sess THEN sess[id]
    ELSE IF DOMAIN sess # {} THEN sess[CHOOSE k \in DOMAIN sess : TRUE]
    ELSE 0

\* Runner.getSession; 0 is nil
getSession(sess, id) == IF id \in DOMAIN sess THEN sess[id] ELSE 0

\* a bug: the entry is left in the map
cleanupSession_KeepsEntry(sess, id) == sess

\* Runner.cleanupSession: the map after delete(r.sessions, sessionID)
cleanupSession(sess, id) == [k \in DOMAIN sess \ {id} |-> sess[k]]

\* a bug: the process is killed and not waited for
terminateProcess_NoWait(pr, c) == IF c = 0 THEN pr ELSE [pr EXCEPT ![c] = "exited"]

\* Runner.terminateProcess: Kill and Wait; a nil session or cmd is left alone
terminateProcess(pr, c) == IF c = 0 THEN pr ELSE [pr EXCEPT ![c] = "reaped"]

\* r.sessions[session.id] = session
registerSession(sess, id, c) ==
    [k \in DOMAIN sess \cup {id} |-> IF k = id THEN c ELSE sess[k]]

\* a bug: the empty sessionId is let through
MissingSessionID_Never(id) == FALSE

\* sessionResult.SessionID == ""
MissingSessionID(id) == id = ""

\* NewResultResponse(msg.ID, json.RawMessage(resp.Result)): a typed nil
\* RawMessage is marshalled as null
RelayResult(result) == IF result = "" THEN "null" ELSE result

\* &RPCResponse{ID: msg.ID, Error: resp.Error}
RelayError(id, error) == RPCMessage(id, "", "", "", error)

\* handleUpstreamRequest's jsonrpc check
VersionOK(msg) == msg.jsonrpc = "" \/ msg.jsonrpc = JSONRPCVersion

UpstreamMethods == {"initialize", "session/new", "session/prompt", "session/cancel",
                    "_tldw/session/close"}

\* the upstream read loop has read a request for this method
UpRequest(method) ==
    /\ uPc.pc = "read"
    /\ upIn # <<>>
    /\ Classify(Head(upIn)) = "request"
    /\ VersionOK(Head(upIn))
    /\ Head(upIn).method = method

\* the pipe to the child's stdin accepts a write
Writable(c) == proc[c] = "running"

\* the broker process is running (main returns when Runner.Run does)
Alive == uPc.pc # "done"

\* the client or an agent may still start an event of its own
MayEmit == clientSent + agentEvents < MaxInputs

clientVars == <<clientSent, answered>>
agentVars == <<wrote, agentEvents>>

\* Conn.Run on the upstream: a notification goes to handleUpstreamNotification,
\* which does nothing; an envelope with neither method nor id is skipped
UpNotification ==
    /\ uPc.pc = "read"
    /\ upIn # <<>>
    /\ Classify(Head(upIn)) \in {"notification", "ignored"}
    /\ upIn' = Tail(upIn)
    /\ UNCHANGED <<agentCommand, cachedCaps, sessions, upstream, downstream, proc, spawned, upOut,
                   dsOut, uPc, dPc, wPc, newOutcome, clientVars, agentVars, connVars, termVars>>

\* Conn.Run on the upstream: a response is delivered to the pending call
UpResponse ==
    /\ uPc.pc = "read"
    /\ upIn # <<>>
    /\ Classify(Head(upIn)) = "response"
    /\ upIn' = Tail(upIn)
    /\ upstream' = deliverResponse(upstream, Head(upIn))
    /\ UNCHANGED <<agentCommand, cachedCaps, sessions, downstream, proc, spawned, upOut,
                   dsOut, uPc, dPc, wPc, newOutcome, clientVars, agentVars, connVars, termVars>>

\* handleUpstreamRequest: unsupported jsonrpc version
UpInvalidVersion ==
    /\ uPc.pc = "read"
    /\ upIn # <<>>
    /\ Classify(Head(upIn)) = "request"
    /\ ~VersionOK(Head(upIn))
    /\ upIn' = Tail(upIn)
    /\ upOut' = Append(upOut, NewErrorResponse(Head(upIn).id, ErrInvalidReq))
    /\ UNCHANGED <<agentCommand, cachedCaps, sessions, upstream, downstream, proc, spawned,
                   dsOut, uPc, dPc, wPc, newOutcome, clientVars, agentVars, connVars, termVars>>

\* handleUpstreamRequest: session/load and unknown methods
UpMethodNotFound ==
    /\ uPc.pc = "read"
    /\ upIn # <<>>
    /\ Classify(Head(upIn)) = "request"
    /\ VersionOK(Head(upIn))
    /\ Head(upIn).method \notin UpstreamMethods
    /\ upIn' = Tail(upIn)
    /\ upOut' = Append(upOut, NewErrorResponse(Head(upIn).id, ErrMethodNotFound))
    /\ UNCHANGED <<agentCommand, cachedCaps, sessions, upstream, downstream, proc, spawned,
                   dsOut, uPc, dPc, wPc, newOutcome, clientVars, agentVars, connVars, termVars>>

\* handleInitialize (lines 96-110).  With no cache, refreshCapabilities spawns
\* a probe child, calls initialize on it with a timeout and reaps it before
\* it returns: the probe fails or yields an initialize result.
UpInitialize ==
    /\ UpRequest("initialize")
    /\ upIn' = Tail(upIn)
    /\ \E probe \in {""} \cup (IF agentCommand = "" THEN {} ELSE ProbeResults) :
          LET refreshed == IF cachedCaps.set THEN cachedCaps
                           ELSE parseAgentCapabilities(probe)
          IN /\ cachedCaps' = refreshed
             /\ upOut' = Append(upOut, NewResultResponse(Head(upIn).id,
                                  initializeResult(buildAgentCapabilities(refreshed))))
    /\ UNCHANGED <<agentCommand, sessions, upstream, downstream, proc, spawned,
                   dsOut, uPc, dPc, wPc, newOutcome, clientVars, agentVars, connVars, termVars>>

\* handleSessionNew up to the spawn and the start of the downstream read loop
\* (lines 117-158)
UpSessionNew ==
    /\ UpRequest("session/new")
    /\ upIn' = Tail(upIn)
    /\ LET msg == Head(upIn)
           params == sessionNewParams(msg.params)
       IN IF \/ agentCommand = ""
             \/ ~params.ok
             \/ params.Cwd = ""
             \/ ~IsAbs(params.Cwd)
             \/ ~SetRootOK(params.Cwd)
          THEN /\ upOut' = Append(upOut, NewErrorResponse(msg.id, ErrInvalidParams))
               /\ UNCHANGED <<proc, spawned, uPc, dPc, newOutcome>>
          ELSE \/ /\ upOut' = Append(upOut, NewErrorResponse(msg.id, ErrInternal))
                  /\ UNCHANGED <<proc, spawned, uPc, dPc, newOutcome>>
               \/ /\ spawned < MaxChildren
                  /\ spawned' = spawned + 1
                  /\ proc' = [proc EXCEPT ![spawned + 1] = "running"]
                  /\ dPc' = [dPc EXCEPT ![spawned + 1].pc = "read"]
                  /\ newOutcome' = [newOutcome EXCEPT ![spawned + 1] = "started"]
                  /\ uPc' = [IdleThread EXCEPT !.pc = "spawned", !.msg = msg,
                                               !.child = spawned + 1]
                  /\ upOut' = upOut
    /\ UNCHANGED <<agentCommand, cachedCaps, sessions, upstream, downstream, dsOut, wPc,
                   clientVars, agentVars, connVars, termVars>>

\* handleSessionNew: downstream.Call("initialize") (lines 160-179)
UpNewCallInitialize ==
    /\ uPc.pc = "spawned"
    /\ LET c == uPc.child
           reg == Register(downstream[c])
           id == reg.nextID
       IN IF Writable(c)
          THEN /\ downstream' = [downstream EXCEPT ![c] = reg]
               /\ dsOut' = [dsOut EXCEPT ![c] =
                              Append(@, RPCMessage(IdRaw(id), "initialize", "init", "", NoError))]
               /\ uPc' = [uPc EXCEPT !.pc = "initWait", !.key = id]
               /\ UNCHANGED <<upOut, newOutcome>>
          ELSE /\ downstream' = [downstream EXCEPT ![c] = Forget(reg, IdRaw(id))]
               /\ upOut' = Append(upOut, NewErrorResponse(uPc.msg.id, ErrInternal))
               /\ newOutcome' = [newOutcome EXCEPT ![c] = "failed"]
               /\ uPc' = IdleThread
               /\ dsOut' = dsOut
    /\ UNCHANGED <<agentCommand, cachedCaps, sessions, upstream, proc, spawned, upIn, dPc, wPc,
                   clientVars, agentVars, connVars, termVars>>

\* handleSessionNew: the initialize response arrived and its capabilities are
\* cached; CallRaw("session/new") with the original params (lines 180-190)
UpNewCallSessionNew ==
    /\ uPc.pc = "initWait"
    /\ downstream[uPc.child].chans[uPc.key] # <<>>
    /\ LET c == uPc.child
           resp == Head(downstream[c].chans[uPc.key])
           got == [downstream[c] EXCEPT !.chans[uPc.key] = Tail(@)]
           reg == Register(got)
           id == reg.nextID
       IN IF resp.error # NoError
          THEN /\ downstream' = [downstream EXCEPT ![c] = got]
               /\ cachedCaps' = cachedCaps
               /\ upOut' = Append(upOut, RelayError(uPc.msg.id, resp.error))
               /\ newOutcome' = [newOutcome EXCEPT ![c] = "failed"]
               /\ uPc' = IdleThread
               /\ dsOut' = dsOut
          ELSE IF Writable(c)
          THEN /\ cachedCaps' = updateCachedCapabilities(cachedCaps, resp.result)
               /\ downstream' = [downstream EXCEPT ![c] = reg]
               /\ dsOut' = [dsOut EXCEPT ![c] =
                              Append(@, RPCMessage(IdRaw(id), "session/new", uPc.msg.params,
                                                   "", NoError))]
               /\ uPc' = [uPc EXCEPT !.pc = "newWait", !.key = id]
               /\ UNCHANGED <<upOut, newOutcome>>
          ELSE /\ cachedCaps' = updateCachedCapabilities(cachedCaps, resp.result)
               /\ downstream' = [downstream EXCEPT ![c] = Forget(reg, IdRaw(id))]
               /\ upOut' = Append(upOut, NewErrorResponse(uPc.msg.id, ErrInternal))
               /\ newOutcome' = [newOutcome EXCEPT ![c] = "failed"]
               /\ uPc' = IdleThread
               /\ dsOut' = dsOut
    /\ UNCHANGED <<agentCommand, sessions, upstream, proc, spawned, upIn, dPc, wPc,
                   clientVars, agentVars, connVars, termVars>>

\* handleSessionNew: the session/new response arrived; validate, register,
\* start the watcher (lines 191-211)
UpNewRegister ==
    /\ uPc.pc = "newWait"
    /\ downstream[uPc.child].chans[uPc.key] # <<>>
    /\ LET c == uPc.child
           resp == Head(downstream[c].chans[uPc.key])
           res == sessionResult(resp.result)
       IN /\ downstream' = [downstream EXCEPT ![c].chans[uPc.key] = Tail(@)]
          /\ IF resp.error # NoError
             THEN /\ upOut' = Append(upOut, RelayError(uPc.msg.id, resp.error))
                  /\ newOutcome' = [newOutcome EXCEPT ![c] = "failed"]
                  /\ UNCHANGED <<sessions, wPc>>
             ELSE IF ~res.ok \/ MissingSessionID(res.SessionID)
             THEN /\ upOut' = Append(upOut, NewErrorResponse(uPc.msg.id, ErrInternal))
                  /\ newOutcome' = [newOutcome EXCEPT ![c] = "failed"]
                  /\ UNCHANGED <<sessions, wPc>>
             ELSE /\ sessions' = registerSession(sessions, res.SessionID, c)
                  /\ wPc' = [wPc EXCEPT ![c] = [pc |-> "wait", sessionID |-> res.SessionID]]
                  /\ upOut' = Append(upOut, NewResultResponse(uPc.msg.id, RelayResult(resp.result)))
                  /\ newOutcome' = [newOutcome EXCEPT ![c] = "registered"]
    /\ uPc' = IdleThread
    /\ UNCHANGED <<agentCommand, cachedCaps, upstream, proc, spawned, upIn, dsOut, dPc,
                   clientVars, agentVars, connVars, termVars>>

\* handleSessionPrompt up to the downstream CallRaw (lines 218-232)
UpSessionPrompt ==
    /\ UpRequest("session/prompt")
    /\ upIn' = Tail(upIn)
    /\ LET msg == Head(upIn)
           params == sessionPromptParams(msg.params)
           c == getSession(sessions, params.SessionID)
           reg == Register(downstream[c])
           id == reg.nextID
       IN IF ~params.ok \/ c = 0
          THEN /\ upOut' = Append(upOut, NewErrorResponse(msg.id, ErrInvalidParams))
               /\ UNCHANGED <<downstream, dsOut, uPc>>
          ELSE IF Writable(c)
          THEN /\ downstream' = [downstream EXCEPT ![c] = reg]
               /\ dsOut' = [dsOut EXCEPT ![c] =
                              Append(@, RPCMessage(IdRaw(id), "session/prompt", msg.params,
                                                   "", NoError))]
               /\ uPc' = [IdleThread EXCEPT !.pc = "promptWait", !.msg = msg,
                                            !.child = c, !.key = id]
               /\ upOut' = upOut
          ELSE /\ downstream' = [downstream EXCEPT ![c] = Forget(reg, IdRaw(id))]
               /\ upOut' = Append(upOut, NewErrorResponse(msg.id, ErrInternal))
               /\ UNCHANGED <<dsOut, uPc>>
    /\ UNCHANGED <<agentCommand, cachedCaps, sessions, upstream, proc, spawned, dPc, wPc, newOutcome,
                   clientVars, agentVars, connVars, termVars>>

\* handleSessionPrompt: the downstream response arrived (lines 233-237)
UpPromptReturn ==
    /\ uPc.pc = "promptWait"
    /\ downstream[uPc.child].chans[uPc.key] # <<>>
    /\ LET c == uPc.child
           resp == Head(downstream[c].chans[uPc.key])
       IN /\ downstream' = [downstream EXCEPT ![c].chans[uPc.key] = Tail(@)]
          /\ upOut' = Append(upOut,
                        IF resp.error # NoError
                        THEN RelayError(uPc.msg.id, resp.error)
                        ELSE NewResultResponse(uPc.msg.id, RelayResult(resp.result)))
    /\ uPc' = IdleThread
    /\ UNCHANGED <<agentCommand, cachedCaps, sessions, upstream, proc, spawned, upIn, dsOut, dPc, wPc,
                   newOutcome, clientVars, agentVars, connVars, termVars>>

\* handleSessionCancel, reached for requests only (lines 240-252); a nil
\* result is left out of the response by omitempty
UpSessionCancel ==
    /\ UpRequest("session/cancel")
    /\ upIn' = Tail(upIn)
    /\ LET msg == Head(upIn)
           params == sessionPromptParams(msg.params)
           c == getSession(sessions, params.SessionID)
       IN /\ dsOut' = IF params.ok /\ c # 0 /\ Writable(c)
                      THEN [dsOut EXCEPT ![c] =
                              Append(@, RPCMessage("", "session/cancel", msg.params, "", NoError))]
                      ELSE dsOut
          /\ upOut' = Append(upOut, NewResultResponse(msg.id, ""))
    /\ UNCHANGED <<agentCommand, cachedCaps, sessions, upstream, downstream, proc, spawned, uPc, dPc,
                   wPc, newOutcome, clientVars, agentVars, connVars, termVars>>

\* handleSessionClose (lines 254-262)
UpSessionClose ==
    /\ UpRequest("_tldw/session/close")
    /\ upIn' = Tail(upIn)
    /\ LET msg == Head(upIn)
           params == sessionPromptParams(msg.params)
       IN IF ~params.ok \/ params.SessionID = ""
          THEN /\ upOut' = Append(upOut, NewErrorResponse(msg.id, ErrInvalidParams))
               /\ UNCHANGED <<sessions, proc>>
          ELSE /\ sessions' = cleanupSession(sessions, params.SessionID)
               /\ proc' = terminateProcess(proc, getSession(sessions, params.SessionID))
               /\ upOut' = Append(upOut, NewResultResponse(msg.id, ""))
    /\ UNCHANGED <<agentCommand, cachedCaps, upstream, downstream, spawned, dsOut, uPc, dPc, wPc,
                   newOutcome, clientVars, agentVars, connVars, termVars>>

\* the upstream Conn.Run returns (the client closed the broker's stdin and
\* every line was read, or a line does not unmarshal) and Runner.Run goes on
\* to shutdown (lines 64-65)
UpRunReturns ==
    /\ uPc.pc = "read"
    /\ \/ /\ upIn = <<>>
          /\ MayEmit
          /\ clientSent' = clientSent + 1
       \/ /\ upIn # <<>>
          /\ Classify(Head(upIn)) = "unmarshal error"
          /\ clientSent' = clientSent
    /\ uPc' = [IdleThread EXCEPT !.pc = "shutdown"]
    /\ UNCHANGED <<agentCommand, cachedCaps, sessions, upstream, downstream, proc, spawned, upIn, upOut,
                   dsOut, dPc, wPc, newOutcome, answered, agentVars, connVars, termVars>>

\* Runner.shutdown: the snapshot of the session ids (lines 430-435)
UpShutdownSnapshot ==
    /\ uPc.pc = "shutdown"
    /\ uPc' = [uPc EXCEPT !.pc = "cleanup", !.ids = DOMAIN sessions]
    /\ UNCHANGED <<agentCommand, cachedCaps, sessions, upstream, downstream, proc, spawned, upIn, upOut,
                   dsOut, dPc, wPc, newOutcome, clientVars, agentVars, connVars, termVars>>

\* Runner.shutdown: cleanupSession for one id of the snapshot (lines 436-438)
UpShutdownCleanup ==
    /\ uPc.pc = "cleanup"
    /\ \E id \in uPc.ids :
        /\ sessions' = cleanupSession(sessions, id)
        /\ proc' = terminateProcess(proc, getSession(sessions, id))
        /\ uPc' = [uPc EXCEPT !.ids = @ \ {id}]
    /\ UNCHANGED <<agentCommand, cachedCaps, upstream, downstream, spawned, upIn, upOut,
                   dsOut, dPc, wPc, newOutcome, clientVars, agentVars, connVars, termVars>>

\* Runner.Run returns and with it main
UpRunnerReturns ==
    /\ uPc.pc = "cleanup"
    /\ uPc.ids = {}
    /\ uPc' = [uPc EXCEPT !.pc = "done"]
    /\ UNCHANGED <<agentCommand, cachedCaps, sessions, upstream, downstream, proc, spawned, upIn, upOut,
                   dsOut, dPc, wPc, newOutcome, clientVars, agentVars, connVars, termVars>>

(***************************************************************************)
(* The downstream read thread of child c: Conn.Run on Session.downstream   *)
(* with the handlers handleSessionNew installs.  The pipe from the agent   *)
(* is not buffered in the model: a line is written by the agent in the     *)
(* step in which the read loop reads it, so the order in which an agent    *)
(* writes its lines is the order in which the loop reads them.             *)
(***************************************************************************)
DownstreamMethods == {"session/request_permission"}

\* the read loop of child c is in ReadLineMessage and the agent can write
DsReads(c) ==
    /\ Alive
    /\ dPc[c].pc = "read"
    /\ proc[c] = "running"


\* the next line of agent c carries this text
NextTag(c) == Tag(c, Len(wrote[c]) + 1)

\* a bug: the forwarded notification is queued ahead of what was written
handleDownstreamNotification_Prepend(out, msg) == <<msg>> \o out

\* a bug: the notification is forwarded twice
handleDownstreamNotification_Twice(out, msg) == Append(Append(out, msg), msg)

\* Runner.handleDownstreamNotification: r.upstream.SendMessage(msg)
handleDownstreamNotification(out, msg) == Append(out, msg)

\* the agent writes a notification, the loop hands it to the notification handler
DsNotification(c) ==
    /\ DsReads(c)
    /\ MayEmit
    /\ LET msg == RPCMessage("", "session/update", NextTag(c), "", NoError)
       IN /\ Classify(msg) = "notification"
          /\ wrote' = [wrote EXCEPT ![c] = Append(@, msg)]
          /\ upOut' = handleDownstreamNotification(upOut, msg)
    /\ agentEvents' = agentEvents + 1
    /\ UNCHANGED <<agentCommand, cachedCaps, sessions, upstream, downstream, proc, spawned, upIn,
                   dsOut, uPc, dPc, wPc, newOutcome, clientVars, connVars, termVars>>

\* position of the first request in a queue of lines, 0 when there is none
FirstRequest(q) ==
    IF \E i \in 1..Len(q) : Classify(q[i]) = "request"
    THEN CHOOSE i \in 1..Len(q) :
            /\ Classify(q[i]) = "request"
            /\ \A j \in 1..(i - 1) : Classify(q[j]) # "request"
    ELSE 0

\* the agent reads its stdin up to the next request of the broker and answers
\* it; the loop delivers the response
DsResponse(c) ==
    /\ DsReads(c)
    /\ FirstRequest(dsOut[c]) # 0
    /\ LET i == FirstRequest(dsOut[c])
           req == dsOut[c][i]
       IN /\ dsOut' = [dsOut EXCEPT ![c] = SubSeq(@, i + 1, Len(@))]
          /\ \E r \in AgentResults(c, req.method, Len(wrote[c]) + 1) \cup {""} :
               LET msg == IF r = "" THEN NewErrorResponse(req.id, PeerError)
                                    ELSE NewResultResponse(req.id, r)
               IN /\ Classify(msg) = "response"
                  /\ wrote' = [wrote EXCEPT ![c] = Append(@, msg)]
                  /\ downstream' = [downstream EXCEPT ![c] = deliverResponse(@, msg)]
    /\ UNCHANGED <<agentCommand, cachedCaps, sessions, upstream, proc, spawned, upIn, upOut,
                   agentEvents, uPc, dPc, wPc, newOutcome, clientVars, connVars, termVars>>

\* handleDownstreamRequest: the agent asks for a method the broker does not serve
DsMethodNotFound(c) ==
    /\ DsReads(c)
    /\ MayEmit
    /\ LET msg == RPCMessage(IdRaw(Len(wrote[c]) + 1), "unknown/method", NextTag(c), "", NoError)
       IN /\ Classify(msg) = "request"
          /\ msg.method \notin DownstreamMethods
          /\ wrote' = [wrote EXCEPT ![c] = Append(@, msg)]
          /\ dsOut' = [dsOut EXCEPT ![c] = Append(@, NewErrorResponse(msg.id, ErrMethodNotFound))]
    /\ agentEvents' = agentEvents + 1
    /\ UNCHANGED <<agentCommand, cachedCaps, sessions, upstream, downstream, proc, spawned, upIn, upOut,
                   uPc, dPc, wPc, newOutcome, clientVars, connVars, termVars>>

\* the cancelled outcome handlePermissionRequest falls back to
Cancelled == "{outcome:cancelled}"

\* a bug: the upstream's RPC error is handed on to the agent
handlePermissionRequest_RelayError(msg, sent, resp) ==
    IF ~sent THEN NewResultResponse(msg.id, Cancelled)
    ELSE IF resp.error # NoError THEN RelayError(msg.id, resp.error)
    ELSE NewResultResponse(msg.id, RelayResult(resp.result))

\* Runner.handlePermissionRequest: the response it returns, given whether the
\* upstream call was sent and the response the call returned (lines 480-492)
handlePermissionRequest(msg, sent, resp) ==
    IF ~sent \/ resp.error # NoError
    THEN NewResultResponse(msg.id, Cancelled)
    ELSE NewResultResponse(msg.id, RelayResult(resp.result))

\* the agent asks for session/request_permission: handlePermissionRequest up
\* to r.upstream.CallRaw (lines 471-479).  The thread's child field records
\* whether the session/prompt of this session was in flight at that moment.
\* When the write to the broker's stdout fails, CallRaw returns the error and
\* the handler's fallback is sent to the agent at once.
DsPermissionRequest(c) ==
    /\ DsReads(c)
    /\ MayEmit
    /\ LET msg == RPCMessage(IdRaw(Len(wrote[c]) + 1), "session/request_permission",
                             NextTag(c), "", NoError)
           reg == Register(upstream)
           id == reg.nextID
       IN /\ Classify(msg) = "request"
          /\ wrote' = [wrote EXCEPT ![c] = Append(@, msg)]
          /\ \/ /\ upstream' = reg
                /\ upOut' = Append(upOut, RPCMessage(IdRaw(id), "session/request_permission",
                                                     msg.params, "", NoError))
                /\ dPc' = [dPc EXCEPT ![c] =
                              [IdleThread EXCEPT !.pc = "permWait", !.msg = msg, !.key = id,
                                                 !.child = IF uPc.pc = "promptWait" /\ uPc.child = c
                                                           THEN c ELSE 0]]
                /\ dsOut' = dsOut
             \/ /\ upstream' = Forget(reg, IdRaw(id))
                /\ dsOut' = [dsOut EXCEPT ![c] =
                               Append(@, handlePermissionRequest(msg, FALSE, NoMsg))]
                /\ UNCHANGED <<upOut, dPc>>
    /\ agentEvents' = agentEvents + 1
    /\ UNCHANGED <<agentCommand, cachedCaps, sessions, downstream, proc, spawned, upIn,
                   uPc, wPc, newOutcome, clientVars, connVars, termVars>>

\* handlePermissionRequest: the upstream response arrived (lines 480-492); a
\* failed SendResponse ends Run
DsPermissionReturn(c) ==
    /\ Alive
    /\ dPc[c].pc = "permWait"
    /\ upstream.chans[dPc[c].key] # <<>>
    /\ LET resp == Head(upstream.chans[dPc[c].key])
           out == handlePermissionRequest(dPc[c].msg, TRUE, resp)
       IN /\ upstream' = [upstream EXCEPT !.chans[dPc[c].key] = Tail(@)]
          /\ IF Writable(c)
             THEN /\ dsOut' = [dsOut EXCEPT ![c] = Append(@, out)]
                  /\ dPc' = [dPc EXCEPT ![c] = IdleThread]
             ELSE /\ dsOut' = dsOut
                  /\ dPc' = [dPc EXCEPT ![c] = [IdleThread EXCEPT !.pc = "returned"]]
    /\ UNCHANGED <<agentCommand, cachedCaps, sessions, downstream, proc, spawned, upIn, upOut,
                   wrote, agentEvents, uPc, wPc, newOutcome, clientVars, connVars, termVars>>

\* the downstream Conn.Run returns on EOF, once the child is gone; the result
\* goes to runErr
DsRunReturns(c) ==
    /\ Alive
    /\ dPc[c].pc = "read"
    /\ proc[c] \in {"exited", "reaped"}
    /\ dPc' = [dPc EXCEPT ![c].pc = "returned"]
    /\ UNCHANGED <<agentCommand, cachedCaps, sessions, upstream, downstream, proc, spawned, upIn, upOut,
                   dsOut, wrote, agentEvents, uPc, wPc, newOutcome, clientVars, connVars, termVars>>

\* a bug: the cleanup of the watcher also kills the commands of the terminals
WatchSession_KillsTerminals(c) ==
    /\ Alive
    /\ wPc[c].pc = "wait"
    /\ dPc[c].pc = "returned"
    /\ sessions' = cleanupSession(sessions, wPc[c].sessionID)
    /\ proc' = terminateProcess(proc, getSession(sessions, wPc[c].sessionID))
    /\ wPc' = [wPc EXCEPT ![c].pc = "done"]
    /\ procs' = [i \in DOMAIN procs |-> Killed(procs[i])]
    /\ UNCHANGED <<agentCommand, cachedCaps, upstream, downstream, spawned, upIn, upOut,
                   dsOut, wrote, agentEvents, uPc, dPc, newOutcome, clientVars, connVars>>
    /\ UNCHANGED <<tmCfg, request, terminals, tpc, ret, cb, cbWritten, cbSnap,
                   fsReq, fsRet, fsNew>>

\* Runner.watchSession: <-runErr, then cleanupSession(sessionID)
WatchSession(c) ==
    /\ Alive
    /\ wPc[c].pc = "wait"
    /\ dPc[c].pc = "returned"
    /\ sessions' = cleanupSession(sessions, wPc[c].sessionID)
    /\ proc' = terminateProcess(proc, getSession(sessions, wPc[c].sessionID))
    /\ wPc' = [wPc EXCEPT ![c].pc = "done"]
    /\ UNCHANGED <<agentCommand, cachedCaps, upstream, downstream, spawned, upIn, upOut,
                   dsOut, wrote, agentEvents, uPc, dPc, newOutcome, clientVars, connVars, termVars>>

(***************************************************************************)
(* The agents (child processes) and the upstream client.                   *)
(***************************************************************************)
\* the agent process exits (what a child does once the broker is gone is not
\* followed)
AgentExit(c) ==
    /\ Alive
    /\ MayEmit
    /\ proc[c] = "running"
    /\ proc' = [proc EXCEPT ![c] = "exited"]
    /\ agentEvents' = agentEvents + 1
    /\ UNCHANGED <<agentCommand, cachedCaps, sessions, upstream, downstream, spawned, upIn, upOut,
                   dsOut, wrote, uPc, dPc, wPc, newOutcome, clientVars,
                   connVars, termVars>>

\* the client writes a request or a notification
ClientSend ==
    /\ uPc.pc \notin {"shutdown", "cleanup", "done"}
    /\ MayEmit
    /\ Len(upIn) < MaxUpQueue
    /\ clientSent' = clientSent + 1
    /\ \E m \in ClientLines(IdRaw(clientSent + 1)) : upIn' = Append(upIn, m)
    /\ UNCHANGED <<agentCommand, cachedCaps, sessions, upstream, downstream, proc, spawned, upOut,
                   answered, wrote, dsOut, agentEvents, uPc, dPc, wPc, newOutcome,
                   connVars, termVars>>

\* the client answers a session/request_permission of the broker
ClientAnswer ==
    /\ uPc.pc \notin {"shutdown", "cleanup", "done"}
    /\ \E i \in 1..Len(upOut) :
        /\ upOut[i].method = "session/request_permission"
        /\ upOut[i].id \notin answered
        /\ answered' = answered \cup {upOut[i].id}
        /\ \E m \in {NewResultResponse(upOut[i].id, "allow"),
                     NewErrorResponse(upOut[i].id, PeerError)} :
              upIn' = Append(upIn, m)
    /\ UNCHANGED <<agentCommand, cachedCaps, sessions, upstream, downstream, proc, spawned, upOut,
                   clientSent, wrote, dsOut, agentEvents, uPc, dPc, wPc, newOutcome,
                   connVars, termVars>>

UpstreamThread ==
    \/ UpNotification
    \/ UpResponse
    \/ UpInvalidVersion
    \/ UpMethodNotFound
    \/ UpInitialize
    \/ UpSessionNew
    \/ UpNewCallInitialize
    \/ UpNewCallSessionNew
    \/ UpNewRegister
    \/ UpSessionPrompt
    \/ UpPromptReturn
    \/ UpSessionCancel
    \/ UpSessionClose
    \/ UpRunReturns
    \/ UpShutdownSnapshot
    \/ UpShutdownCleanup
    \/ UpRunnerReturns

DownstreamThread(c) ==
    \/ DsNotification(c)
    \/ DsResponse(c)
    \/ DsMethodNotFound(c)
    \/ DsPermissionRequest(c)
    \/ DsPermissionReturn(c)
    \/ DsRunReturns(c)

Next ==
    \/ UpstreamThread
    \/ \E c \in Children : DownstreamThread(c)
    \/ \E c \in Children : WatchSession(c)
    \/ \E c \in Children : AgentExit(c)
    \/ ClientSend
    \/ ClientAnswer

Spec == Init /\ [][Next]_vars

\* a step of the upstream thread other than its seeing the client close stdin
UpstreamProgress == UpstreamThread /\ ~(uPc.pc = "read" /\ upIn = <<>>)

\* a step of the downstream thread of child c on what it already has: a reply
\* of the agent to read, an answered permission call, the end of the stream
DownstreamProgress(c) == DsResponse(c) \/ DsPermissionReturn(c) \/ DsRunReturns(c)

\* every goroutine of the broker that can take a step eventually does, the
\* agents answer the requests they were sent and the client answers the
\* permission requests; nobody is obliged to start anything
FairSpec ==
    /\ Spec
    /\ WF_vars(UpstreamProgress)
    /\ \A c \in Children : WF_vars(DownstreamProgress(c))
    /\ \A c \in Children : WF_vars(WatchSession(c))
    /\ WF_vars(ClientAnswer)

(***************************************************************************)
(* DestroySpec: the broker of Spec whose first session also owns a         *)
(* TerminalManager in use.  The agent of that session asks for             *)
(* terminal/create, the commands run or exit by themselves, and the        *)
(* session is destroyed by close, by its watcher or by shutdown.           *)
(***************************************************************************)
\* the child whose Session holds the TerminalManager of the model
Owner == 1

\* the sessionId of a terminal/create request: absent, or not the session's
TerminalSessionIds == {"", "sX"}

\* Runner.handleTerminalCreate: the agent of child c writes the request, the
\* handler checks the sessionId, calls Create and the response is sent
handleTerminalCreate(c) ==
    /\ c = Owner
    /\ DsReads(c)
    /\ MayEmit
    /\ tpc.pc = "idle"
    /\ Len(procs) < MaxTerms
    /\ \E req \in TermRequests, sid \in TerminalSessionIds :
         LET msg == RPCMessage(IdRaw(Len(wrote[c]) + 1), "terminal/create", NextTag(c),
                               "", NoError)
             id == Len(procs) + 1
         IN /\ Classify(msg) = "request"
            /\ wrote' = [wrote EXCEPT ![c] = Append(@, msg)]
            /\ IF sid # "" /\ wPc[c].sessionID # sid
               THEN /\ dsOut' = [dsOut EXCEPT ![c] =
                                   Append(@, NewErrorResponse(msg.id, ErrInvalidParams))]
                    /\ UNCHANGED <<terminals, procs, ret, request>>
               ELSE /\ request' = req
                    /\ IF CreateError(tmCfg, req) # ""
                       THEN /\ dsOut' = [dsOut EXCEPT ![c] =
                                           Append(@, NewErrorResponse(msg.id, ErrInternal))]
                            /\ ret' = [NoResult EXCEPT !.op = "create",
                                                       !.err = CreateError(tmCfg, req)]
                            /\ UNCHANGED <<terminals, procs>>
                       ELSE /\ procs' = Append(procs, NewProcess(tmCfg, req, id))
                            /\ terminals' = terminals \cup {id}
                            /\ ret' = [NoResult EXCEPT !.op = "create", !.id = id]
                            /\ dsOut' = [dsOut EXCEPT ![c] =
                                           Append(@, NewResultResponse(msg.id, Tag(c, id)))]
    /\ agentEvents' = agentEvents + 1
    /\ UNCHANGED <<agentCommand, cachedCaps, sessions, upstream, downstream, proc, spawned, upIn,
                   upOut, uPc, dPc, wPc, newOutcome, clientVars, connVars>>
    /\ UNCHANGED <<tmCfg, tpc, cb, cbWritten, cbSnap, fsReq, fsRet, fsNew>>

\* NewSession and SetRoot of handleSessionNew: the session's root is set
DestroyInit ==
    /\ RunnerStart
    /\ ConnStart
    /\ ManagerIdle
    /\ BufIdle
    /\ FsIdle
    /\ tmCfg = [enabled |-> TRUE, maxOutputBytes |-> MaxOutput, root |-> Root]
    /\ request = NoRequest

DestroyNext ==
    \/ Next
    \/ handleTerminalCreate(Owner)
    \/ \E i \in 1..Len(procs) : ProcExit(i, 0)

DestroySpec == DestroyInit /\ [][DestroyNext]_vars

(***************************************************************************)
(* C2: every outstanding Call eventually returns: once the read loop of    *)
(* the downstream Conn has returned (EOF or error), a call the upstream    *)
(* handler is still waiting in on that Conn (initialize, session/new or    *)
(* session/prompt) completes, so the handler does not stay blocked.        *)
(***************************************************************************)
C2_OutstandingCallReturns ==
    (/\ uPc.pc \in {"initWait", "newWait", "promptWait"}
     /\ dPc[uPc.child].pc = "returned")
        ~> (uPc.pc \notin {"initWait", "newWait", "promptWait"})

(***************************************************************************)
(* C3: a permission request made while the session/prompt of its session   *)
(* is in flight makes progress: once the client has answered the forwarded *)
(* request, the downstream thread leaves the permission handler (the       *)
(* answer was read by the broker and returned to the agent).               *)
(***************************************************************************)
C3_PermissionAnswerReturned ==
    \A c \in Children :
        (/\ dPc[c].pc = "permWait"
         /\ dPc[c].child = c
         /\ uPc.pc = "promptWait"
         /\ uPc.child = c
         /\ IdRaw(dPc[c].key) \in answered)
            ~> (dPc[c].pc # "permWait")

(***************************************************************************)
(* C4: when the upstream read loop takes a session/cancel line whose       *)
(* params name a registered session, with an id or without, a              *)
(* session/cancel notification with those params is written to that        *)
(* session's downstream; no reply is written when the line had no id, and  *)
(* a reply with the line's id, no error and a null result otherwise.       *)
(***************************************************************************)
C4_CancelForwardedAndAnswered ==
    [][(/\ uPc.pc = "read"
        /\ upIn # <<>>
        /\ upIn' = Tail(upIn)
        /\ Head(upIn).json
        /\ Head(upIn).method = "session/cancel"
        /\ VersionOK(Head(upIn))
        /\ sessionPromptParams(Head(upIn).params).SessionID \in DOMAIN sessions
        /\ Writable(sessions[sessionPromptParams(Head(upIn).params).SessionID]))
       => LET msg == Head(upIn)
              c == sessions[sessionPromptParams(msg.params).SessionID]
          IN /\ dsOut'[c] = Append(dsOut[c],
                                   RPCMessage("", "session/cancel", msg.params, "", NoError))
             /\ IF msg.id \in {"", "null"}
                THEN upOut' = upOut
                ELSE \E r \in {"", "null"} :
                        upOut' = Append(upOut, NewResultResponse(msg.id, r))]_vars

(***************************************************************************)
(* C5: when a session/new fails after its child was spawned (initialize or *)
(* session/new cannot be sent or is answered with an error, the result     *)
(* does not parse or has no sessionId), the child has been killed and      *)
(* reaped by the time the error response is written.                       *)
(***************************************************************************)
C5_FailedNewReapsChild ==
    \A c \in Children : newOutcome[c] = "failed" => proc[c] = "reaped"

(***************************************************************************)
(* C6: an entry of the session map is added or replaced only by the        *)
(* session/new handler, after the downstream answered session/new with a   *)
(* result holding that, non-empty, sessionId; and a session/new answered   *)
(* with an error leaves the session map unchanged.                         *)
(***************************************************************************)
C6_RegisteredOnlyAfterValidSessionId ==
    [][/\ \A id \in DOMAIN sessions' :
            (id \notin DOMAIN sessions \/ sessions'[id] # sessions[id])
            => /\ id # ""
               /\ uPc.pc = "newWait"
               /\ sessions'[id] = uPc.child
               /\ \E i \in 1..Len(wrote[uPc.child]) :
                     /\ wrote[uPc.child][i].id = IdRaw(uPc.key)
                     /\ wrote[uPc.child][i].method = ""
                     /\ wrote[uPc.child][i].error = NoError
                     /\ wrote[uPc.child][i].result = id
       /\ LET req == IF uPc.pc # "read" THEN uPc.msg
                     ELSE IF upIn # <<>> THEN Head(upIn) ELSE NoMsg
          IN (/\ req.method = "session/new"
              /\ Len(upOut') = Len(upOut) + 1
              /\ upOut'[Len(upOut')].id = req.id
              /\ upOut'[Len(upOut')].method = ""
              /\ upOut'[Len(upOut')].error # NoError)
             => sessions' = sessions]_vars

\* one session/new failed after its spawn and another one registered a session
C6_Witness ==
    \E c, d \in Children :
        /\ newOutcome[c] = "failed"
        /\ newOutcome[d] = "registered"
        /\ d \in {sessions[id] : id \in DOMAIN sessions}

(***************************************************************************)
(* C7: once the watcher of a registered session has run (the downstream    *)
(* read loop of the session returned), the child process of that session   *)
(* has been killed and reaped.                                             *)
(***************************************************************************)
C7_WatcherReapsItsChild ==
    \A c \in Children : wPc[c].pc = "done" => proc[c] = "reaped"

(***************************************************************************)
(* C8: a session/prompt is routed by params.sessionId.  For a registered   *)
(* session the original params go to the downstream of that session and    *)
(* nothing goes to any other downstream, and the response written upstream *)
(* carries the id of the upstream request with the result or the error of  *)
(* the agent's response; for an unregistered sessionId the broker answers  *)
(* -32602 and writes nothing downstream.                                   *)
(***************************************************************************)
C8_PromptRoutedBySessionId ==
    [][/\ (/\ uPc.pc = "read"
           /\ upIn # <<>>
           /\ upIn' = Tail(upIn)
           /\ Classify(Head(upIn)) = "request"
           /\ VersionOK(Head(upIn))
           /\ Head(upIn).method = "session/prompt")
          => LET msg == Head(upIn)
                 sid == sessionPromptParams(msg.params).SessionID
             IN IF sid \in DOMAIN sessions
                THEN /\ \A d \in Children \ {sessions[sid]} : dsOut'[d] = dsOut[d]
                     /\ Writable(sessions[sid]) =>
                           /\ Len(dsOut'[sessions[sid]]) = Len(dsOut[sessions[sid]]) + 1
                           /\ SubSeq(dsOut'[sessions[sid]], 1, Len(dsOut[sessions[sid]]))
                                 = dsOut[sessions[sid]]
                           /\ dsOut'[sessions[sid]][Len(dsOut'[sessions[sid]])].method
                                 = "session/prompt"
                           /\ dsOut'[sessions[sid]][Len(dsOut'[sessions[sid]])].params
                                 = msg.params
                           /\ upOut' = upOut
                ELSE /\ upOut' = Append(upOut, NewErrorResponse(msg.id, -32602))
                     /\ dsOut' = dsOut
       /\ (uPc.pc = "promptWait" /\ uPc'.pc # "promptWait")
          => \E i \in 1..Len(wrote[uPc.child]) :
                LET resp == wrote[uPc.child][i]
                IN /\ resp.method = ""
                   /\ resp.id = IdRaw(uPc.key)
                   /\ upOut' = Append(upOut, [resp EXCEPT !.id = uPc.msg.id])]_vars

\* with two sessions registered, a prompt was answered with its agent's result
C8_Witness ==
    /\ Cardinality(DOMAIN sessions) = 2
    /\ \E i \in 1..Len(upOut) : \E c \in Children : \E n \in 1..(2 * MaxInputs) :
          /\ upOut[i].method = ""
          /\ upOut[i].result = Tag(c, n)

C10_EmissionOrderKept ==
    \A c \in Children : \A i, j \in 1..Len(wrote[c]) :
        LET pos(t) == {k \in 1..Len(upOut) : upOut[k].params = t \/ upOut[k].result = t}
        IN (/\ i < j
            /\ Classify(wrote[c][i]) = "notification"
            /\ \/ Classify(wrote[c][j]) = "notification"
               \/ wrote[c][j].result = Tag(c, j)
            /\ pos(Tag(c, j)) # {})
           => /\ pos(Tag(c, i)) # {}
              /\ \A k \in pos(Tag(c, i)) : \A l \in pos(Tag(c, j)) : k < l

\* an agent wrote a notification and then the result of a prompt, and the
\* result has been written to the upstream
C10_Witness ==
    \E c \in Children : \E i, j \in 1..Len(wrote[c]) :
        /\ i < j
        /\ Classify(wrote[c][i]) = "notification"
        /\ wrote[c][j].result = Tag(c, j)
        /\ \E k \in 1..Len(upOut) : upOut[k].result = Tag(c, j)

(***************************************************************************)
(* C11: what the broker writes to an agent in reply to its                 *)
(* session/request_permission is a result under the request's id, never an *)
(* error: the upstream's result when the upstream answered with one, the   *)
(* cancelled outcome when the upstream answered with an RPC error or the   *)
(* upstream call could not be sent.                                        *)
(***************************************************************************)
C11_PermissionReplyIsResult ==
    [][\A c \in Children :
         /\ (dPc[c].pc = "permWait" /\ dPc'[c].pc = "read")
            => LET answer == Head(upstream.chans[dPc[c].key])
               IN dsOut'[c] = Append(dsOut[c],
                     [NoMsg EXCEPT !.id = dPc[c].msg.id,
                                   !.result = IF answer.error # NoError
                                              THEN "{outcome:cancelled}"
                                              ELSE answer.result])
         /\ (/\ dPc[c].pc = "read"
             /\ dPc'[c].pc = "read"
             /\ Len(wrote'[c]) = Len(wrote[c]) + 1
             /\ wrote'[c][Len(wrote'[c])].method = "session/request_permission")
            => dsOut'[c] = Append(dsOut[c],
                     [NoMsg EXCEPT !.id = wrote'[c][Len(wrote'[c])].id,
                                   !.result = "{outcome:cancelled}"])]_vars

\* an agent was sent the cancelled outcome after the client answered its
\* permission request with an error
C11_Witness ==
    \E c \in Children : \E i \in 1..Len(dsOut[c]) :
        /\ dsOut[c][i].result = Cancelled
        /\ answered # {}

C13_ShutdownReapsEverySession ==
    uPc.pc = "done"
    => /\ sessions = <<>>
       /\ \A c \in Children : newOutcome[c] = "registered" => proc[c] = "reaped"

C15_CancelledCallDropsLateResponse ==
    /\ [](\A p \in Callers :
            calls[p].pc = "cancelled"
            => /\ calls[p].resp = NoMsg
               /\ IdRaw(calls[p].id) \notin DOMAIN conn.pending
               /\ Len(conn.chans[calls[p].id]) <= 1)
    /\ [][\A p \in Callers :
            (/\ calls[p].pc = "cancelled"
             /\ inbox # <<>>
             /\ inbox' = Tail(inbox)
             /\ Head(inbox).json
             /\ Head(inbox).method = ""
             /\ Head(inbox).id = IdRaw(calls[p].id))
            => /\ conn' = conn
               /\ calls' = calls
               /\ runPc' = runPc]_vars

\* one call was cancelled while its response was being delivered, another
\* one before its response, which the read loop is about to read
C15_Witness ==
    \E p, q \in Callers :
        /\ calls[p].pc = "cancelled"
        /\ Len(conn.chans[calls[p].id]) = 1
        /\ calls[q].pc = "cancelled"
        /\ conn.chans[calls[q].id] = <<>>
        /\ inbox # <<>>
        /\ Head(inbox).method = ""
        /\ Head(inbox).id = IdRaw(calls[q].id)
        /\ runPc = "reading"

(***************************************************************************)
(* C16: the ids a Conn has minted are pairwise distinct, and the id a call *)
(* mints is greater than every id minted before it, whatever became of the *)
(* earlier calls (waiting, returned, cancelled, failed to send).           *)
(***************************************************************************)
C16_MintedIdsDistinctIncreasing ==
    /\ [](\A p, q \in Callers :
            (p # q /\ calls[p].pc # "idle" /\ calls[q].pc # "idle")
            => calls[p].id # calls[q].id)
    /\ [][\A p, q \in Callers :
            (calls[p].pc = "idle" /\ calls'[p].pc # "idle" /\ calls[q].pc # "idle")
            => calls'[p].id > calls[q].id]_vars

\* both calls have minted an id, one was cancelled and the other failed to send
C16_Witness ==
    \E p, q \in Callers :
        /\ calls[p].pc = "cancelled"
        /\ calls[q].pc = "send error"

(***************************************************************************)
(* C17: every envelope Conn.Run reads is treated by its method and id.     *)
(* With a method and an id that is absent or the literal null it is a      *)
(* notification: the notification handler, if any, is invoked once and     *)
(* nothing is sent.  With a method and any other id it is a request: with  *)
(* no handler the answer is method-not-found; otherwise the handler is     *)
(* invoked once and the answer is internal-error with the request id when  *)
(* the handler returned an error, nothing when it returned a nil response, *)
(* and the handler's response otherwise.  With no method and an id it is a *)
(* response: the pending call with that id string is removed and receives  *)
(* the message, and nothing changes when no such call is pending.          *)
(***************************************************************************)
C17_RunClassifiesByMethodAndId ==
    [][(runPc = "reading" /\ inbox # <<>> /\ inbox' = Tail(inbox) /\ Head(inbox).json) =>
        LET msg == Head(inbox)
            Sent(r) == IF wOpen
                       THEN outbox' = Append(outbox, r) /\ runPc' = runPc
                       ELSE outbox' = outbox /\ runPc' = "error"
            Silent == outbox' = outbox /\ runPc' = runPc
        IN CASE msg.method # "" /\ msg.id \in {"", "null"} ->
                  /\ Silent
                  /\ conn' = conn
                  /\ invoked' = IF notification = "set"
                                THEN Append(invoked, [h |-> "notification", msg |-> msg,
                                                      out |-> [resp |-> NoMsg, err |-> FALSE]])
                                ELSE invoked
             [] msg.method # "" /\ msg.id \notin {"", "null"} ->
                  /\ conn' = conn
                  /\ IF handler = "none"
                     THEN /\ invoked' = invoked
                          /\ Sent(RPCMessage(msg.id, "", "", "", ErrMethodNotFound))
                     ELSE /\ Len(invoked') = Len(invoked) + 1
                          /\ SubSeq(invoked', 1, Len(invoked)) = invoked
                          /\ LET call == invoked'[Len(invoked')]
                             IN /\ call.h = "request"
                                /\ call.msg = msg
                                /\ IF call.out.err
                                   THEN Sent(RPCMessage(msg.id, "", "", "", ErrInternal))
                                   ELSE IF call.out.resp = NoMsg
                                        THEN Silent
                                        ELSE Sent(call.out.resp)
             [] msg.method = "" /\ msg.id # "" ->
                  /\ Silent
                  /\ invoked' = invoked
                  /\ IF msg.id \in DOMAIN conn.pending
                     THEN LET ch == conn.pending[msg.id]
                          IN /\ DOMAIN conn'.pending = DOMAIN conn.pending \ {msg.id}
                             /\ \A k \in DOMAIN conn'.pending :
                                   conn'.pending[k] = conn.pending[k]
                             /\ conn'.chans = [conn.chans EXCEPT ![ch] = Append(@, msg)]
                             /\ conn'.nextID = conn.nextID
                     ELSE conn' = conn
             [] OTHER -> Silent /\ conn' = conn /\ invoked' = invoked]_vars

\* Run has answered a request whose handler failed with internal-error, has
\* handed a notification with the id null to the notification handler, and
\* has delivered a response to the call that then returned
C17_Witness ==
    /\ \E i \in 1..Len(invoked) :
          /\ invoked[i].h = "request"
          /\ invoked[i].out.err
          /\ \E j \in 1..Len(outbox) :
                outbox[j] = NewErrorResponse(invoked[i].msg.id, ErrInternal)
    /\ \E i \in 1..Len(invoked) :
          invoked[i].h = "notification" /\ invoked[i].msg.id = "null"
    /\ calls[1].pc = "returned"

(***************************************************************************)
(* C18: Run has returned nil only if its input was at EOF, and at EOF it   *)
(* returns nil.  Reading a line that does not unmarshal, it stops with an  *)
(* error and sends nothing and invokes no handler for that line.  It stops *)
(* in no other case but the failed write of a response: not on any line    *)
(* that unmarshals while the writer accepts writes.                        *)
(***************************************************************************)
C18_RunReturnsOnEOFOrError ==
    /\ [](runPc = "eof" => (rEOF /\ inbox = <<>>))
    /\ [][(runPc = "reading" /\ runPc' # "reading") =>
            IF inbox = <<>>
            THEN rEOF /\ runPc' = "eof" /\ outbox' = outbox
            ELSE /\ runPc' = "error"
                 /\ outbox' = outbox
                 /\ \/ ~Head(inbox).json
                    \/ /\ ~wOpen
                       /\ Head(inbox).method # ""
                       /\ Head(inbox).id \notin {"", "null"}]_vars
    /\ [][(runPc = "reading" /\ inbox # <<>> /\ inbox' = Tail(inbox) /\ ~Head(inbox).json) =>
            /\ runPc' = "error"
            /\ outbox' = outbox
            /\ conn' = conn
            /\ invoked' = invoked]_vars

\* Run answered a request, then stopped on a line that does not unmarshal
\* while its writer was open, and a well-formed line written after it is
\* left unread
C18_Witness ==
    /\ runPc = "error"
    /\ wOpen
    /\ ~rEOF
    /\ Len(outbox) = 1
    /\ inbox # <<>>
    /\ Head(inbox).json
    /\ peerSent = MaxPeerMsgs

(***************************************************************************)
(* C19: whatever the interleaving of the threads in Conn.send, the bytes   *)
(* on the writer are the frames (data, LF) of the sends that have written, *)
(* one after the other in some order, each whole except possibly the last, *)
(* which is the one being written; a send that returned nil has its whole  *)
(* frame there and a send that failed has written nothing.                 *)
(***************************************************************************)
C19_FramesNeverInterleave ==
    LET W == {t \in Senders : senders[t].pos > 0}
    IN /\ \A t \in Senders :
            /\ senders[t].pc = "sent" => senders[t].pos = Len(senders[t].data) + 1
            /\ senders[t].pc = "failed" => senders[t].pos = 0
       /\ \E off \in [W -> 0..Len(wire)] :
            /\ \A t \in W :
                  /\ off[t] + senders[t].pos <= Len(wire)
                  /\ \A k \in 1..senders[t].pos :
                        wire[off[t] + k] = (IF k <= Len(senders[t].data)
                                            THEN senders[t].data[k]
                                            ELSE LF)
                  /\ senders[t].pos < Len(senders[t].data) + 1
                        => off[t] + senders[t].pos = Len(wire)
            /\ \A t, u \in W :
                  t # u => \/ off[t] + senders[t].pos <= off[u]
                           \/ off[u] + senders[u].pos <= off[t]
            /\ \A i \in 1..Len(wire) :
                  \E t \in W : off[t] < i /\ i <= off[t] + senders[t].pos

\* one send has returned after writing a frame of several bytes, another is
\* in the middle of its frame
C19_Witness ==
    \E t, u \in Senders :
        /\ senders[t].pc = "sent"
        /\ Len(senders[t].data) >= 2
        /\ senders[u].pc = "locked"
        /\ senders[u].pos > 0
        /\ senders[u].pos <= Len(senders[u].data)

(***************************************************************************)
(* C20: framing round trip.  A payload WriteLineMessage has written (it is *)
(* not empty, has no LF and is within the size cap) is what ReadLineMessage *)
(* returns, without error, when it reads the bytes written.                *)
(***************************************************************************)
C20_FramingRoundTrip ==
    (senders[1].pc = "sent" /\ Len(readBack) >= 1)
    => (readBack[1].err = "" /\ readBack[1].payload = senders[1].data)

(***************************************************************************)
(* C21: WriteLineMessage fails, having written no byte and made no call of *)
(* Write, exactly when the payload is empty, holds an LF or is longer than *)
(* MaxMessageSize; otherwise it returns nil after one call of Write, and   *)
(* the bytes written are the payload followed by one LF.                   *)
(***************************************************************************)
C21_WriteRejectsOrWritesFrame ==
    LET data == senders[1].data
        chunks == Cardinality({i \in 1..Len(data) : data[i] = Chunk})
        refused == \/ Len(data) = 0
                   \/ \E i \in 1..Len(data) : data[i] = LF
                   \/ chunks >= 2
                   \/ chunks = 1 /\ Len(data) >= 2
    IN /\ senders[1].pc = "failed" =>
            /\ refused
            /\ senders[1].err # ""
            /\ wire = <<>>
            /\ senders[1].writes = 0
       /\ senders[1].pc = "sent" =>
            /\ ~refused
            /\ senders[1].err = ""
            /\ wire = data \o <<LF>>
            /\ senders[1].writes = 1
       /\ (senders[1].pc = "locked" /\ refused) => wire = <<>>

\* a payload one byte over the cap was refused
C21_Witness ==
    /\ senders[1].pc = "failed"
    /\ senders[1].data = <<Chunk, "a">>

(***************************************************************************)
(* C22: each call of ReadLineMessage returns the next line of the input    *)
(* that is not blank, without its LF and without one trailing CR, be it    *)
(* the last line and without LF; it returns EOF when only blank lines are  *)
(* left, and fails when that line is longer than MaxMessageSize.           *)
(***************************************************************************)
C22_ReadReturnsLinesInOrder ==
    [][readBack' # readBack =>
        LET rest == SubSeq(wire, rdPos + 1, Len(wire))
            ink == {i \in 1..Len(rest) : rest[i] \notin {SP, TAB, CR, LF}}
            k == CHOOSE i \in ink : \A j \in ink : i <= j
            before == {0} \cup {i \in 1..(k - 1) : rest[i] = LF}
            first == 1 + (CHOOSE i \in before : \A j \in before : i >= j)
            after == {Len(rest) + 1} \cup {i \in k..Len(rest) : rest[i] = LF}
            last == (CHOOSE i \in after : \A j \in after : i <= j) - 1
            content == SubSeq(rest, first, last)
            line == IF content[Len(content)] = CR
                    THEN SubSeq(content, 1, Len(content) - 1)
                    ELSE content
            chunks == Cardinality({i \in 1..Len(line) : line[i] = Chunk})
            result == readBack'[Len(readBack')]
        IN /\ Len(readBack') = Len(readBack) + 1
           /\ SubSeq(readBack', 1, Len(readBack)) = readBack
           /\ IF ink = {}
              THEN result.err = "EOF"
              ELSE IF chunks >= 2 \/ (chunks = 1 /\ Len(line) >= 2)
                   THEN result.err \notin {"", "EOF"}
                   ELSE result.err = "" /\ result.payload = line]_vars

(***************************************************************************)
(* C23: after any writes to a cappedBuffer with a positive limit, from     *)
(* either stream in any order, Snapshot returns the last min(limit, total) *)
(* bytes of all that was written, in the order written, and truncated is   *)
(* true exactly when more than limit bytes were written; truncated never   *)
(* goes back to false.                                                     *)
(***************************************************************************)
C23_SnapshotIsCappedSuffix ==
    /\ [](cbSnap.taken =>
            LET total == Len(cbWritten)
                keep == IF total < cb.limit THEN total ELSE cb.limit
            IN /\ cbSnap.data = SubSeq(cbWritten, total - keep + 1, total)
               /\ cbSnap.truncated = (total > cb.limit))
    /\ [][cb.truncated => cb'.truncated]_vars

\* a snapshot of a buffer that has dropped bytes, written by both streams
C23_Witness ==
    /\ cbSnap.taken
    /\ cbSnap.truncated
    /\ Len(cbWritten) > cb.limit + 1
    /\ \E i, j \in 1..Len(cbWritten) : cbWritten[i] = "o" /\ cbWritten[j] = "e"
    /\ \E i, j \in 1..Len(cbSnap.data) : cbSnap.data[i] = "o" /\ cbSnap.data[j] = "e"

(***************************************************************************)
(* C24: for every terminal Create made, cmd.Wait returns at most once and  *)
(* done is closed at most once, and when done is closed the child has been *)
(* reaped and its exit code and signal are the ones stored; a released     *)
(* terminal is not in the map, and once Release has returned, Output,      *)
(* WaitForExit, Kill and Release on its id fail with "terminal not found"  *)
(* and do nothing else.                                                    *)
(***************************************************************************)
C24_ReapedOnceAndReleasedNotFound ==
    /\ [](\A i \in 1..Len(procs) :
            /\ procs[i].reaps <= 1
            /\ procs[i].closes <= 1
            /\ procs[i].closes = 1 =>
                  /\ procs[i].reaps = 1
                  /\ procs[i].exitCode = [code |-> procs[i].osCode, set |-> TRUE]
                  /\ procs[i].signal = procs[i].osSignal
            /\ procs[i].released => i \notin terminals)
    /\ [][\A i \in 1..Len(procs) :
            procs[i].released =>
               /\ procs'[i] = procs[i] \/ tpc' = tpc
               /\ ~(tpc'.pc # "idle" /\ tpc'.id = i)
               /\ (ret' # ret /\ ret'.id = i /\ ret'.op # "create")
                     => ret'.err = "terminal not found"]_vars

C24_Witness ==
    /\ Len(procs) >= 1
    /\ procs[1].released
    /\ procs[1].closes = 1
    /\ procs[1].osSignal = "killed"
    /\ ret = [NoResult EXCEPT !.op = "wait", !.id = 1, !.err = "terminal not found"]

(***************************************************************************)
(* C25: a Kill called on a terminal whose done is closed returns no error  *)
(* and leaves the stored exit status and the terminal map as they are.     *)
(***************************************************************************)
C25_KillAfterDoneSucceeds ==
    [][(tpc.pc = "kill" /\ tpc.wasDone /\ tpc'.pc = "idle") =>
          /\ ret' = [NoResult EXCEPT !.op = "kill", !.id = tpc.id]
          /\ terminals' = terminals
          /\ procs'[tpc.id].exitCode = procs[tpc.id].exitCode
          /\ procs'[tpc.id].signal = procs[tpc.id].signal]_vars

(***************************************************************************)
(* C26: Output returns in the step it is called in, whatever the child     *)
(* does, with the snapshot of the buffer and with an exit status exactly   *)
(* when done is closed, and that status is the stored exit code and        *)
(* signal; WaitForExit returns only when done is closed, with the same     *)
(* status.                                                                 *)
(***************************************************************************)
C26_OutputNeverWaits ==
    /\ [][(ret' # ret /\ ret'.op = "output" /\ ret'.err = "") =>
            /\ tpc.pc = "idle" /\ tpc' = tpc /\ procs' = procs
            /\ ret'.output = procs[ret'.id].output.buf
            /\ ret'.truncated = procs[ret'.id].output.truncated
            /\ ret'.exitStatus.present = (procs[ret'.id].closes > 0)
            /\ ret'.exitStatus.present =>
                  /\ procs[ret'.id].exitCode.set
                  /\ ret'.exitStatus.exitCode = procs[ret'.id].exitCode.code
                  /\ ret'.exitStatus.signal = procs[ret'.id].signal]_vars
    /\ [][(ret' # ret /\ ret'.op = "wait" /\ ret'.err = "") =>
            /\ procs[ret'.id].closes > 0
            /\ procs[ret'.id].exitCode.set
            /\ ret'.exitStatus = [present |-> TRUE,
                                  exitCode |-> procs[ret'.id].exitCode.code,
                                  signal |-> procs[ret'.id].signal]]_vars

C26_Witness ==
    /\ ret.op = "output"
    /\ ret.err = ""
    /\ ~ret.exitStatus.present
    /\ ret.output # <<>>
    /\ procs[ret.id].os = "exited"
    /\ procs[ret.id].wpc = "recorded"

(***************************************************************************)
(* C27: Create takes the first allowlist entry, in declared order, whose   *)
(* template tokens are a prefix of [command] ++ args and whose policy      *)
(* admits the remainder (remainder empty, or allow_args and max_args = 0   *)
(* or len(remainder) <= max_args), with that remainder as the extra args;  *)
(* it fails with "command not in allowlist" exactly when no entry does.    *)
(***************************************************************************)
C27_FirstQualifyingEntry ==
    LET requested == <<request.command>> \o request.args
        IsPrefix(t) == Len(t) <= Len(requested) /\ SubSeq(requested, 1, Len(t)) = t
        Rest(t) == SubSeq(requested, Len(t) + 1, Len(requested))
        Admits(e) == \/ Rest(e.template) = <<>>
                     \/ e.allowArgs /\ (e.maxArgs = 0 \/ Len(Rest(e.template)) <= e.maxArgs)
        Qualifies == {i \in 1..Len(Commands) :
                        IsPrefix(Commands[i].template) /\ Admits(Commands[i])}
        first == CHOOSE i \in Qualifies : \A j \in Qualifies : i <= j
    IN (tmCfg.enabled /\ ret.op = "create") =>
          /\ (ret.err = "command not in allowlist") = (Qualifies = {})
          /\ \A k \in 1..Len(procs) :
                /\ procs[k].cmdDef = first
                /\ procs[k].extraArgs = Rest(Commands[first].template)

(***************************************************************************)
(* C27, amended: the same for the entries whose template has at least one  *)
(* token, with a policy that admits the remainder when it is empty, or     *)
(* when allow_args holds and max_args <= 0 or len(remainder) <= max_args.  *)
(***************************************************************************)
C27_FirstQualifyingNonBlankEntry ==
    LET requested == <<request.command>> \o request.args
        IsPrefix(t) == Len(t) <= Len(requested) /\ SubSeq(requested, 1, Len(t)) = t
        Rest(t) == SubSeq(requested, Len(t) + 1, Len(requested))
        Admits(e) == \/ Rest(e.template) = <<>>
                     \/ e.allowArgs /\ (e.maxArgs <= 0 \/ Len(Rest(e.template)) <= e.maxArgs)
        Qualifies == {i \in 1..Len(Commands) :
                        Commands[i].template # <<>> /\ IsPrefix(Commands[i].template) /\ Admits(Commands[i])}
        first == CHOOSE i \in Qualifies : \A j \in Qualifies : i <= j
    IN (tmCfg.enabled /\ ret.op = "create") =>
          /\ (ret.err = "command not in allowlist") = (Qualifies = {})
          /\ \A k \in 1..Len(procs) :
                /\ procs[k].cmdDef = first
                /\ procs[k].extraArgs = Rest(Commands[first].template)

C27_Witness ==
    /\ Len(procs) = 1
    /\ procs[1].cmdDef = 4
    /\ Commands[4].maxArgs < 0
    /\ Len(procs[1].extraArgs) = 2
    /\ ret = [NoResult EXCEPT !.op = "create", !.id = 1]

(***************************************************************************)
(* C28: no process Create started has, among its extra args or anywhere in *)
(* its command line, a token with one of the characters of MetaChars; a    *)
(* request with such a token fails with an error, starts no process and    *)
(* registers no terminal.                                                  *)
(***************************************************************************)
C28_NoShellMetaInExtraArgs ==
    LET HasMeta(tok) == \E i \in 1..Len(tok) : tok[i] \in MetaChars
        requested == <<request.command>> \o request.args
    IN /\ \A k \in 1..Len(procs) :
             /\ \A j \in 1..Len(procs[k].extraArgs) : ~HasMeta(procs[k].extraArgs[j])
             /\ \A j \in 1..Len(procs[k].fullCmd) : procs[k].fullCmd[j] \notin MetaChars
       /\ (ret.op = "create" /\ \E j \in 1..Len(requested) : HasMeta(requested[j])) =>
             /\ ret.err # ""
             /\ procs = <<>>
             /\ terminals = {}

C28_Witness ==
    /\ ret = [NoResult EXCEPT !.op = "create",
                              !.err = "argument contains disallowed characters"]
    /\ request.command = <<"run">>
    /\ request.args = << <<"x", "\n">> >>
    /\ procs = <<>>
    /\ terminals = {}

(***************************************************************************)
(* C29: the working directory of every process Create started is an        *)
(* absolute path that exists and whose location, once its symbolic links   *)
(* are followed, is the workspace root or below it; with an empty cwd it   *)
(* is the root; a relative cwd, or an absolute one whose location is not   *)
(* under the root, also when a symbolic link takes it there, makes Create  *)
(* fail without a process or a terminal.                                   *)
(***************************************************************************)
C29_CwdInsideWorkspaceRoot ==
    LET Under(real, root) == /\ Len(real) >= Len(root)
                             /\ SubSeq(real, 1, Len(root)) = root
        Escapes(cwd) == /\ EvalSymlinks(cwd.comps).ok
                        /\ ~Under(EvalSymlinks(cwd.comps).path, tmCfg.root.comps)
    IN /\ \A k \in 1..Len(procs) :
             /\ tmCfg.root # NoPath
             /\ procs[k].dir.abs
             /\ EvalSymlinks(procs[k].dir.comps).ok
             /\ Under(EvalSymlinks(procs[k].dir.comps).path, tmCfg.root.comps)
             /\ request.cwd = NoPath => procs[k].dir = tmCfg.root
       /\ (/\ ret.op = "create"
           /\ request.cwd # NoPath
           /\ ~request.cwd.abs \/ Escapes(request.cwd)) =>
             /\ ret.err # ""
             /\ procs = <<>>
             /\ terminals = {}

(***************************************************************************)
(* C30: the limit of the output buffer of a process Create started is the  *)
(* smallest of those of max_output_bytes and outputByteLimit that are      *)
(* positive, and 1 MiB when neither is.                                    *)
(***************************************************************************)
C30_LimitIsSmallestPositive ==
    \A k \in 1..Len(procs) :
        LET positive == {x \in {tmCfg.maxOutputBytes, request.outputLimit} : x > 0}
        IN procs[k].output.limit =
              IF positive = {}
              THEN 1024 * 1024
              ELSE CHOOSE x \in positive : \A y \in positive : x <= y

(***************************************************************************)
(* C31: with no root set ResolvePath fails with "no workspace set"; with a *)
(* root it returns an error or a path whose location, once its symbolic    *)
(* links are followed, is the location of the root or below it and is not  *)
(* blocked by its base name or as a whole.                                 *)
(***************************************************************************)
C31_ResolvedPathInsideRoot ==
    fsRet.op = "resolve" =>
       /\ tmCfg.root = NoPath => fsRet.err = "no workspace set"
       /\ (tmCfg.root # NoPath /\ fsRet.err = "") =>
             LET q == fsRet.path.comps
                 whole == EvalSymlinks(q)
                 parent == EvalSymlinks(SubSeq(q, 1, Len(q) - 1))
                 location == IF whole.ok THEN whole.path
                             ELSE Append(parent.path, q[Len(q)])
                 realRoot == EvalSymlinks(tmCfg.root.comps).path
             IN /\ fsRet.path.abs
                /\ whole.ok \/ parent.ok
                /\ Len(location) >= Len(realRoot)
                /\ SubSeq(location, 1, Len(realRoot)) = realRoot
                /\ ~IsPathBlocked(location)

C33_WriteCreatesMissingParents ==
    (fsRet.op = "write" /\ fsReq.path.abs /\ tmCfg.root # NoPath) =>
       LET q == fsReq.path.comps
           n == Len(tmCfg.root.comps)
           parent == SubSeq(q, 1, Len(q) - 1)
           missing == {SubSeq(q, 1, j) : j \in (n + 1)..(Len(q) - 1)} \ Dirs
       IN /\ ( /\ Len(q) > n + 1
               /\ SubSeq(q, 1, n) = tmCfg.root.comps
               /\ \A j \in 1..Len(q) : q[j] # ".."
               /\ \A j \in n..Len(q) : SubSeq(q, 1, j) \notin DOMAIN Links \cup DOMAIN Files
               /\ ~IsPathBlocked(q)
               /\ parent \notin Dirs )
             => /\ fsRet.err = ""
                /\ fsNew = [dirs |-> missing, files |-> {q}]
          /\ ResolvePath(tmCfg.root, fsReq.path).err # ""
             => fsNew = [dirs |-> {}, files |-> {}]

(***************************************************************************)
(* C34: a terminal/wait_for_exit that is pending does not stall the        *)
(* downstream connection: the terminal/kill the agent sends later is       *)
(* handled, so the wait returns even when the command never exits by       *)
(* itself.                                                                 *)
(***************************************************************************)
C34_PendingWaitEndedByKill == (tpc.pc = "wait") ~> (tpc.pc = "idle")

(***************************************************************************)
(* C35: a session/cancel request that arrives while the session/prompt of  *)
(* the same session still awaits the downstream's response is not held     *)
(* back until the prompt has returned: the broker can read and forward it  *)
(* while the prompt is pending.                                            *)
(***************************************************************************)
C35_CancelNotHeldBackByPrompt ==
    ( /\ uPc.pc = "promptWait"
      /\ downstream[uPc.child].chans[uPc.key] = <<>>
      /\ upIn # <<>>
      /\ Head(upIn).json
      /\ Head(upIn).method = "session/cancel"
      /\ Head(upIn).id \notin {"", "null"}
      /\ VersionOK(Head(upIn))
      /\ sessionPromptParams(Head(upIn).params).SessionID
           = sessionPromptParams(uPc.msg.params).SessionID )
    => ENABLED UpSessionCancel

(***************************************************************************)
(* C36: cleanup of one session never touches another.  Every running      *)
(* child of a successful session/new is the value of an entry of the       *)
(* session map, also when two agents report the same sessionId; and the    *)
(* watcher of one child neither removes the entry of another child nor     *)
(* changes the state of another child's process.                           *)
(***************************************************************************)
C36_CleanupTouchesOnlyItsSession ==
    /\ [](\A c \in Children :
            (newOutcome[c] = "registered" /\ proc[c] = "running")
            => \E id \in DOMAIN sessions : sessions[id] = c)
    /\ [][\A c \in Children :
            (wPc[c].pc = "wait" /\ wPc'[c].pc = "done")
            => \A d \in Children \ {c} :
                  /\ proc'[d] = proc[d]
                  /\ \A id \in DOMAIN sessions :
                        sessions[id] = d => (id \in DOMAIN sessions' /\ sessions'[id] = d)]_vars

(***************************************************************************)
(* C37: of close, watcher and shutdown acting on one entry of the session  *)
(* map exactly one finds it.  The step that removes the entry of a         *)
(* registered child is the step that kills and reaps that child, a reaped  *)
(* child has no entry left for a later cleanup to find, and a cleanup for  *)
(* an id that has no entry changes neither the map nor any process.        *)
(***************************************************************************)
C37_ExactlyOneCleanupFindsEntry ==
    /\ [](\A c \in Children :
            (newOutcome[c] = "registered" /\ proc[c] = "reaped")
            => \A id \in DOMAIN sessions : sessions[id] # c)
    /\ [][/\ \A c \in Children :
               newOutcome[c] = "registered" =>
                  LET removed == \E id \in DOMAIN sessions :
                                    sessions[id] = c /\ id \notin DOMAIN sessions'
                  IN /\ removed => proc'[c] = "reaped"
                     /\ (proc'[c] = "reaped" /\ proc[c] # "reaped") => removed
          /\ \A c \in Children :
               (wPc[c].pc = "wait" /\ wPc'[c].pc = "done"
                   /\ wPc[c].sessionID \notin DOMAIN sessions)
               => (sessions' = sessions /\ proc' = proc)
          /\ (uPc.pc = "cleanup" /\ uPc'.pc = "cleanup"
                 /\ \E id \in uPc.ids \ uPc'.ids : id \notin DOMAIN sessions)
             => (sessions' = sessions /\ proc' = proc)
          /\ (uPc.pc = "read" /\ upIn # <<>> /\ upIn' = Tail(upIn)
                 /\ Classify(Head(upIn)) = "request" /\ VersionOK(Head(upIn))
                 /\ Head(upIn).method = "_tldw/session/close"
                 /\ sessionPromptParams(Head(upIn).params).SessionID \notin DOMAIN sessions)
             => (sessions' = sessions /\ proc' = proc)]_vars

\* shutdown took its snapshot while the session was registered, the watcher
\* then found the entry and reaped the child, and the cleanup of shutdown is
\* about to find nothing
C37_Witness ==
    /\ uPc.pc = "cleanup"
    /\ uPc.ids # {}
    /\ sessions = <<>>
    /\ \E c \in Children :
          /\ newOutcome[c] = "registered"
          /\ wPc[c].pc = "done"
          /\ wPc[c].sessionID \in uPc.ids
          /\ proc[c] = "reaped"

(***************************************************************************)
(* C38: destroying a session kills only the agent process.  A step that    *)
(* removes an entry of the session map or reaps an agent leaves the        *)
(* terminal map and every terminal process as they were.                   *)
(***************************************************************************)
C38_CleanupLeavesTerminals ==
    [][( \/ \E id \in DOMAIN sessions : id \notin DOMAIN sessions'
         \/ \E c \in Children : proc'[c] = "reaped" /\ proc[c] # "reaped" )
       => (terminals' = terminals /\ procs' = procs)]_vars

\* the session that created a terminal has been destroyed while the command
\* of the terminal still runs and the terminal is still in the map
C38_Witness ==
    /\ newOutcome[Owner] = "registered"
    /\ proc[Owner] = "reaped"
    /\ sessions = <<>>
    /\ terminals = {1}
    /\ procs[1].os = "running"
    /\ procs[1].wpc = "wait"

(***************************************************************************)
(* C39: in the command line of every process Create started, the words the *)
(* shell sees after those of the template are exactly the accepted extra   *)
(* tokens, one word per token, so they are at most max_args when max_args  *)
(* is positive.                                                            *)
(***************************************************************************)
C39_OneShellWordPerExtraToken ==
    \A k \in 1..Len(procs) :
       LET entry == Commands[procs[k].cmdDef]
           words == ShellWords(procs[k].fullCmd)
       IN /\ words = entry.template \o procs[k].extraArgs
          /\ entry.maxArgs > 0 => Len(words) - Len(entry.template) <= entry.maxArgs

(***************************************************************************)
(* C40: the read loop never blocks on a delivery.  A rendezvous slot holds *)
(* at most one message and is sent to only while it is empty and its entry *)
(* is in the pending map, which the delivery removes; and the pending map  *)
(* holds exactly the ids of the calls that are registered or waiting and   *)
(* have not been answered.                                                 *)
(***************************************************************************)
C40_DeliveryNeverBlocks ==
    /\ [](/\ \A n \in DOMAIN conn.chans : Len(conn.chans[n]) <= 1
          /\ DOMAIN conn.pending =
               {IdRaw(calls[p].id) : p \in {q \in Callers :
                    /\ calls[q].pc \in {"registered", "waiting"}
                    /\ conn.chans[calls[q].id] = <<>>}})
    /\ [][\A n \in DOMAIN conn.chans :
            Len(conn'.chans[n]) > Len(conn.chans[n])
            => /\ conn.chans[n] = <<>>
               /\ IdRaw(n) \in DOMAIN conn.pending
               /\ IdRaw(n) \notin DOMAIN conn'.pending]_vars

\* a call has returned with its response and a second response with the
\* same id is the next line of the read loop, while another call was
\* cancelled
C40_Witness ==
    \E p, q \in Callers :
        /\ calls[p].pc = "returned"
        /\ inbox # <<>>
        /\ Head(inbox).json
        /\ Head(inbox).method = ""
        /\ Head(inbox).id = IdRaw(calls[p].id)
        /\ calls[q].pc = "cancelled"
        /\ runPc = "reading"

====
